---- MODULE Spec2Model ----
(***************************************************************************)
(* Mood-chain graph store of the music library backend                     *)
(* (backend/app/services/mood_chain.py): one mood chain, its ordered       *)
(* member rows (mood_chain_songs) and its transition rows                  *)
(* (mood_chain_transitions), driven by the service's operations.           *)
(***************************************************************************)
EXTENDS Integers, Sequences, FiniteSets, Bags, TLC

(***************************************************************************)
(* Bounds of the model.                                                    *)
(***************************************************************************)
\* largest explicit position an add request carries
MaxPosition == 2
\* longest song-id list of a create or reorder request
MaxIds == 2
\* most entries of one update_transitions request
MaxBatch == 2
\* most listening-history entries read by create_from_history
MaxLog == 3
\* most record_transition_played calls in the general specification
MaxPlays == 2
\* most record_transition_played calls in the traversal specification
MaxTraversals == 11
\* longest listening history a chain is made from
MaxHistory == 5
\* most record_play calls
MaxListens == 2
\* largest exclude_recent of a suggestion request
MaxExclude == 1

(***************************************************************************)
(* Python floats.  A float in [0, 8) is held as the integer number of      *)
(* units of 2^-57 it equals, split in two limbs: value = (hi * 2^29 + lo)  *)
(* * 2^-57.  Every IEEE-754 double in [2^-5, 8) (and 0.0) is such a        *)
(* number; results are rounded to 53 significant bits, ties to even, as    *)
(* the hardware does.                                                      *)
(***************************************************************************)
Limb == 2^29

Dbl(h, l) == [hi |-> h, lo |-> l]

\* spacing, in units of 2^-57, of the doubles in the binade of a value with
\* high limb h
Quantum(h) ==
    IF h >= 2^30 THEN 128
    ELSE IF h >= 2^29 THEN 64
    ELSE IF h >= 2^28 THEN 32
    ELSE IF h >= 2^27 THEN 16
    ELSE IF h >= 2^26 THEN 8
    ELSE IF h >= 2^25 THEN 4
    ELSE IF h >= 2^24 THEN 2
    ELSE 1

\* the double nearest to (h * 2^29 + l + num/den) units, 0 <= num < den
RoundNearestEven(h, l, num, den) ==
    LET q    == Quantum(h)
        low  == l % q
        base == l - low
        \* twice the discarded part against one quantum, both times den
        twice == 2 * low * den + 2 * num
        one   == q * den
        up   == \/ twice > one
                \/ twice = one /\ ((base \div q) % 2 = 1)
        l2   == IF up THEN base + q ELSE base
    IN  IF l2 >= Limb THEN Dbl(h + 1, l2 - Limb) ELSE Dbl(h, l2)

\* k more binary digits of r/d (0 <= r < d) appended to the quotient q:
\* quotient and remainder
RECURSIVE DivBits(_, _, _, _)
DivBits(q, r, d, k) ==
    IF k = 0 THEN [q |-> q, r |-> r]
    ELSE IF k = 1
    THEN (IF 2 * r >= d THEN [q |-> 2 * q + 1, r |-> 2 * r - d]
          ELSE [q |-> 2 * q, r |-> 2 * r])
    ELSE LET some == DivBits(q, r, d, k \div 2)
         IN  IF some.q >= 0 THEN DivBits(some.q, some.r, d, k - k \div 2)
             ELSE some

\* Python's n / d on ints (true division, correctly rounded); also the value
\* of a decimal literal such as 0.6 == 6/10
FDiv(n, d) ==
    LET top == DivBits(0, n % d, d, 28)
        bot == DivBits(0, top.r, d, 29)
    IN  RoundNearestEven((n \div d) * 2^28 + top.q, bot.q, bot.r, d)

\* Python's a + b on floats
FAdd(a, b) ==
    LET l == a.lo + b.lo
        c == IF l >= Limb THEN 1 ELSE 0
    IN  RoundNearestEven(a.hi + b.hi + c, l - c * Limb, 0, 1)

FLeq(a, b) == a.hi < b.hi \/ (a.hi = b.hi /\ a.lo <= b.lo)

FLess(a, b) == ~FLeq(b, a)

\* Python's min(a, b)
FMin(a, b) == IF FLess(b, a) THEN b ELSE a

Zero == Dbl(0, 0)
One == Dbl(2^28, 0)

\* Python's max(a, b)
FMax(a, b) == IF FLess(a, b) THEN b ELSE a

\* Python's abs(a - b) on floats
FAbsDiff(a, b) ==
    LET x == FMax(a, b)
        y == FMin(a, b)
        borrow == IF x.lo < y.lo THEN 1 ELSE 0
    IN  RoundNearestEven(x.hi - y.hi - borrow, x.lo - y.lo + borrow * Limb, 0, 1)

\* the discarded part of a result, as the numerator of a fraction over 4 that
\* compares with 0 and 1/2 as the discarded part does
Discarded(half, sticky) ==
    (IF half THEN 2 ELSE 0) + (IF sticky THEN 1 ELSE 0)

\* acc plus the multiplicand (ah, al) when bit = 1
MulAdd(ah, al, acc, bit) ==
    LET l == acc.lo + bit * al
        c == IF l >= Limb THEN 1 ELSE 0
    IN  Dbl(acc.hi + bit * ah + c, l - c * Limb)

\* the k low bits of a limb of the multiplier applied to the accumulator, the
\* lowest first: add the multiplicand (ah, al) for a set bit, then halve;
\* sticky tells whether a set bit was halved away
RECURSIVE MulBits(_, _, _, _, _, _)
MulBits(ah, al, limb, acc, sticky, k) ==
    IF k = 0 THEN [acc |-> acc, sticky |-> sticky]
    ELSE IF k = 1
    THEN LET n == MulAdd(ah, al, acc, limb % 2)
             half == Dbl(n.hi \div 2, (n.hi % 2) * (Limb \div 2) + n.lo \div 2)
         IN  [acc |-> half, sticky |-> sticky \/ n.lo % 2 = 1]
    ELSE LET some == MulBits(ah, al, limb, acc, sticky, k \div 2)
         IN  IF some.sticky
             THEN MulBits(ah, al, limb \div 2^(k \div 2), some.acc, TRUE,
                          k - k \div 2)
             ELSE MulBits(ah, al, limb \div 2^(k \div 2), some.acc, FALSE,
                          k - k \div 2)

\* Python's a * b on floats, for a in [0, 1] and b in [0, 2)
FMul(a, b) ==
    LET c    == IF 2 * a.lo >= Limb THEN 1 ELSE 0
        \* the multiplicand in units of 2^-58
        ah   == 2 * a.hi + c
        al   == 2 * a.lo - c * Limb
        low  == MulBits(ah, al, b.lo, Zero, FALSE, 29)
        high == MulBits(ah, al, b.hi, Dbl(low.acc.hi, low.acc.lo), low.sticky, 28)
        \* the product in units of 2^-58
        n    == MulAdd(ah, al, Dbl(high.acc.hi, high.acc.lo), b.hi \div 2^28)
    IN  RoundNearestEven(n.hi \div 2, (n.hi % 2) * (Limb \div 2) + n.lo \div 2,
                         Discarded(n.lo % 2 = 1, high.sticky), 4)

\* k more binary digits of the quotient of the remainder (rh, rl) by the
\* divisor (dh, dl), appended to q: quotient and remainder
RECURSIVE QuotBits(_, _, _, _, _, _)
QuotBits(q, rh, rl, dh, dl, k) ==
    IF k = 0 THEN [q |-> q, rh |-> rh, rl |-> rl]
    ELSE IF k = 1
    THEN LET l  == 2 * rl
             c  == IF l >= Limb THEN 1 ELSE 0
             h  == 2 * rh + c
             lo == l - c * Limb
             ge == h > dh \/ (h = dh /\ lo >= dl)
             borrow == IF lo < dl THEN 1 ELSE 0
         IN  IF ge
             THEN [q |-> 2 * q + 1, rh |-> h - dh - borrow,
                   rl |-> lo - dl + borrow * Limb]
             ELSE [q |-> 2 * q, rh |-> h, rl |-> lo]
    ELSE LET some == QuotBits(q, rh, rl, dh, dl, k \div 2)
         IN  IF some.q >= 0
             THEN QuotBits(some.q, some.rh, some.rl, dh, dl, k - k \div 2)
             ELSE some

\* Python's a / b on floats, for 0 <= a <= b < 2, b > 0
FDivF(a, b) ==
    IF a = b THEN One
    ELSE LET top  == QuotBits(0, a.hi, a.lo, b.hi, b.lo, 28)
             bot  == QuotBits(0, top.rh, top.rl, b.hi, b.lo, 29)
             next == QuotBits(0, bot.rh, bot.rl, b.hi, b.lo, 1)
             rest == next.rh # 0 \/ next.rl # 0
         IN  RoundNearestEven(top.q, bot.q, Discarded(next.q = 1, rest), 4)

\* the quotient digits of (r * 2^bits + part) by the int n, r < n
DivStep(r, part, bits, n) ==
    [q |-> (r * 2^bits + part) \div n, r |-> (r * 2^bits + part) % n]

\* Python's a / n on a float and an int n, 0 < n < 2^15
FDivInt(a, n) ==
    LET h1 == DivStep(0, a.hi \div 2^15, 16, n)
        h2 == DivStep(h1.r, a.hi % 2^15, 15, n)
        l1 == DivStep(h2.r, a.lo \div 2^15, 14, n)
        l2 == DivStep(l1.r, a.lo % 2^15, 15, n)
    IN  RoundNearestEven(h1.q * 2^15 + h2.q, l1.q * 2^15 + l2.q, l2.r, n)

(***************************************************************************)
(* The database.  The rows of the songs table are fixed but for their      *)
(* play_count: "s1".."s7" belong to user "u1", "s8" to user "u2"; the id   *)
(* "s9" names no song.  The model holds one mood chain (at most one row of *)
(* mood_chains), so the member and transition rows carry no mood_chain_id. *)
(***************************************************************************)
Users == {"u1", "u2"}

\* None in a nullable column: of a string, of an int, of a float
NoneStr == "None"
NoneInt == -1
NoneFloat == Dbl(-1, 0)

Song(id, owner_id, genre, bpm, energy, valence, artist, duration_seconds) ==
    [id |-> id, owner_id |-> owner_id, genre |-> genre, bpm |-> bpm,
     energy |-> energy, valence |-> valence, artist |-> artist,
     duration_seconds |-> duration_seconds]

songs ==
    {Song("s1", "u1", "Rock", 120, FDiv(7, 10), FDiv(6, 10), "X", 200),
     Song("s2", "u1", "rock", 122, FDiv(72, 100), FDiv(58, 100), "x", 180),
     Song("s3", "u1", NoneStr, 0, NoneFloat, NoneFloat, NoneStr, 240),
     Song("s4", "u1", "Jazz", 90, FDiv(3, 10), FDiv(4, 10), "Y", 300),
     Song("s5", "u1", "Rock", 150, FDiv(9, 10), FDiv(9, 10), "X", 210),
     Song("s6", "u1", "Rock", 118, FDiv(65, 100), FDiv(55, 100), "X", 190),
     Song("s7", "u1", "Classical", 60, FDiv(1, 10), FDiv(2, 10), "Z", 400),
     Song("s8", "u2", "Rock", 120, FDiv(7, 10), FDiv(6, 10), "X", 200),
     Song("s10", "u2", "Rock", 128, FDiv(8, 10), FDiv(7, 10), "X", 100),
     Song("s11", "u2", "Rock", 124, FDiv(75, 100), FDiv(5, 10), "X", 50),
     Song("s12", "u2", "Rock", 130, FDiv(3, 10), FDiv(3, 10), "X", 60)}

\* the song ids of the mood chain requests
SongIds == {"s1", "s2", "s3", "s9"}

\* "position omitted" of an add request (position: int | None = None)
NoPosition == -1

\* the session the service is given does not flush pending rows before a query
autoflush == FALSE

VARIABLES
    mood_chains,             \* table mood_chains: set of rows (none or one)
    mood_chain_songs,        \* table mood_chain_songs: bag of rows
    mood_chain_transitions,  \* table mood_chain_transitions: set of rows
    now,                     \* the clock read by datetime.now(UTC)
    lastCall,                \* history: the last service call and its outcome
    traversals,              \* history: record_transition_played calls that succeeded
    streak,                  \* history: run of record_transition_played calls on one
                             \* pair that had no transition before the run
    song_play_count,         \* column songs.play_count, by song id
    song_last_played_at,     \* column songs.last_played_at, by song id
    cache,                   \* the Redis keys and their values
    sessions                 \* the add_song_to_mood_chain requests in flight: what
                             \* each has read, by request

vars == <<mood_chains, mood_chain_songs, mood_chain_transitions, now,
          lastCall, traversals, streak, song_play_count, song_last_played_at,
          cache, sessions>>

db == <<mood_chains, mood_chain_songs, mood_chain_transitions>>

\* what the recommendation service reads and writes
library == <<song_play_count, song_last_played_at, cache>>

NoStreak == [from_song_id |-> "", to_song_id |-> "", calls |-> 0]

\* the requests that may be in flight together
Requests == {"r1", "r2"}

\* a request that has read nothing
NoSession == [owner_id |-> "", song_id |-> "", position |-> -1]

Call(op, owner_id, args, result) ==
    [op |-> op, owner_id |-> owner_id, args |-> args, result |-> result]

\* a call that raises: the request's transaction is rolled back
Raise(op, owner_id, args, error) ==
    /\ lastCall' = Call(op, owner_id, args, error)
    /\ streak' = NoStreak
    /\ UNCHANGED <<sessions, db, now, traversals, library>>

Range(f) == {f[i] : i \in DOMAIN f}

\* songs.play_count before the first request: five songs of "u1" played often,
\* "s6" three times, "s7" never
InitialPlayCount ==
    [id \in {s.id : s \in songs} |->
        CASE id = "s1" -> 9 [] id = "s2" -> 8 [] id = "s3" -> 7
          [] id = "s4" -> 6 [] id = "s5" -> 5 [] id = "s6" -> 3
          [] OTHER -> 0]

\* no key
EmptyCache == <<>>

SeqsUpTo(S, n) == UNION {[1..k -> S] : k \in 0..n}

Init ==
    /\ mood_chains = {}
    /\ mood_chain_songs = EmptyBag
    /\ mood_chain_transitions = {}
    /\ now = 0
    /\ lastCall = Call("init", "", <<>>, "ok")
    /\ traversals = 0
    /\ streak = NoStreak
    /\ song_play_count = InitialPlayCount
    /\ song_last_played_at = [id \in {s.id : s \in songs} |-> NoneInt]
    /\ cache = EmptyCache
    /\ sessions = [request \in Requests |-> NoSession]

(***************************************************************************)
(* Queries of the service.  A query result is the set of matching rows;    *)
(* scalar_one_or_none is None on the empty set and raises                  *)
(* MultipleResultsFound on more than one row.                              *)
(***************************************************************************)
\* the chain whoever asks for it: the lookup without MoodChain.owner_id ==
\* owner_id
AnyMoodChain(owner_id) == mood_chains

get_mood_chain_by_id(owner_id) == {c \in mood_chains : c.owner_id = owner_id}

get_song(song_id, owner_id) ==
    {s \in songs : s.id = song_id /\ s.owner_id = owner_id}

\* the member rows of a song (a bag: equal rows are counted)
get_mood_chain_song(song_id) ==
    [r \in {x \in BagToSet(mood_chain_songs) : x.song_id = song_id} |->
        CopiesIn(r, mood_chain_songs)]

\* the transition rows of an ordered pair, among the rows `table`
get_transition(table, from_song_id, to_song_id) ==
    {t \in table : t.from_song_id = from_song_id /\ t.to_song_id = to_song_id}

\* song_count as recomputed from the member rows
recalculate_mood_chain_stats(chain, rows) ==
    [chain EXCEPT !.song_count = BagCardinality(rows)]

NewMoodChain(owner_id, auto) ==
    [id |-> "c1", owner_id |-> owner_id, song_count |-> 0, play_count |-> 0,
     last_played_at |-> 0, is_auto_generated |-> auto,
     transition_style |-> "smooth"]

MemberRow(song_id, position) == [song_id |-> song_id, position |-> position]

(***************************************************************************)
(* create_mood_chain                                                       *)
(***************************************************************************)
\* the rows added for song_ids[k..]: one per id that names a song of the owner,
\* at the id's index in the list
RECURSIVE SeedRows(_, _, _)
SeedRows(song_ids, owner_id, k) ==
    IF k > Len(song_ids) THEN EmptyBag
    ELSE IF get_song(song_ids[k], owner_id) # {}
         THEN SetToBag({MemberRow(song_ids[k], k - 1)})
                  (+) SeedRows(song_ids, owner_id, k + 1)
         ELSE SeedRows(song_ids, owner_id, k + 1)

CreateMoodChain(owner_id, song_ids) ==
    /\ mood_chains = {}
    /\ LET rows == SeedRows(song_ids, owner_id, 1)
       IN  /\ mood_chain_songs' = rows
           /\ mood_chains' =
                {recalculate_mood_chain_stats(NewMoodChain(owner_id, FALSE), rows)}
    /\ lastCall' = Call("create", owner_id, <<song_ids>>, "ok")
    /\ streak' = NoStreak
    /\ UNCHANGED <<sessions, mood_chain_transitions, now, traversals, library>>

(***************************************************************************)
(* add_song_to_mood_chain                                                  *)
(***************************************************************************)
\* rows at or after `position` move one place up
ShiftUp(rows, position) ==
    LET Moved(r) == IF r.position >= position
                    THEN [r EXCEPT !.position = @ + 1]
                    ELSE r
    IN  BagOfAll(Moved, rows)

AddSong(owner_id, song_id, position) ==
    LET args == <<song_id, position>>
        found == get_mood_chain_by_id(owner_id)
        existing == get_mood_chain_song(song_id)
    IN  IF found = {} THEN Raise("add", owner_id, args, "MoodChainNotFoundError")
        ELSE IF get_song(song_id, owner_id) = {}
             THEN Raise("add", owner_id, args, "SongNotFoundError")
        ELSE IF BagCardinality(existing) > 1
             THEN Raise("add", owner_id, args, "MultipleResultsFound")
        ELSE IF existing # EmptyBag
             THEN Raise("add", owner_id, args, "SongAlreadyInMoodChainError")
        ELSE LET mood_chain == CHOOSE c \in found : TRUE
                 pos == IF position = NoPosition THEN mood_chain.song_count
                        ELSE position
                 rows == ShiftUp(mood_chain_songs, pos)
                             (+) SetToBag({MemberRow(song_id, pos)})
             IN  /\ mood_chain_songs' = rows
                 /\ mood_chains' = {recalculate_mood_chain_stats(mood_chain, rows)}
                 /\ lastCall' = Call("add", owner_id, args, "ok")
                 /\ streak' = NoStreak
                 /\ UNCHANGED <<sessions, mood_chain_transitions, now, traversals,
                                library>>

\* add_song_to_mood_chain of a request that runs beside another, up to the
\* position it determines: the chain, the song and the membership check are
\* read from the committed rows, and nothing is written yet
AddSongReads(request, owner_id, song_id, position) ==
    LET args == <<song_id, position>>
        found == get_mood_chain_by_id(owner_id)
        existing == get_mood_chain_song(song_id)
    IN  /\ sessions[request] = NoSession
        /\ IF found = {} THEN Raise("add", owner_id, args, "MoodChainNotFoundError")
           ELSE IF get_song(song_id, owner_id) = {}
                THEN Raise("add", owner_id, args, "SongNotFoundError")
           ELSE IF BagCardinality(existing) > 1
                THEN Raise("add", owner_id, args, "MultipleResultsFound")
           ELSE IF existing # EmptyBag
                THEN Raise("add", owner_id, args, "SongAlreadyInMoodChainError")
           ELSE LET mood_chain == CHOOSE c \in found : TRUE
                    pos == IF position = NoPosition THEN mood_chain.song_count
                           ELSE position
                IN  /\ sessions' =
                          [sessions EXCEPT ![request] =
                              [owner_id |-> owner_id, song_id |-> song_id,
                               position |-> pos]]
                    /\ lastCall' = Call("add_reads", owner_id, args, "ok")
                    /\ streak' = NoStreak
                    /\ UNCHANGED <<db, now, traversals, library>>

\* the rest of that request, and its commit: the rows at or after the
\* position, as they are now, are shifted, the row is added, and song_count
\* is counted again
AddSongWrites(request) ==
    LET session == sessions[request]
        rows == ShiftUp(mood_chain_songs, session.position)
                    (+) SetToBag({MemberRow(session.song_id, session.position)})
    IN  /\ session # NoSession
        /\ mood_chains # {}
        /\ mood_chain_songs' = rows
        /\ mood_chains' =
              {recalculate_mood_chain_stats(CHOOSE c \in mood_chains : TRUE, rows)}
        /\ sessions' = [sessions EXCEPT ![request] = NoSession]
        /\ lastCall' = Call("add_writes", session.owner_id,
                            <<session.song_id, session.position>>, "ok")
        /\ streak' = NoStreak
        /\ UNCHANGED <<mood_chain_transitions, now, traversals, library>>

(***************************************************************************)
(* remove_song_from_mood_chain                                             *)
(***************************************************************************)
\* rows after `position` move one place down
ShiftDown(rows, position) ==
    LET Moved(r) == IF r.position > position
                    THEN [r EXCEPT !.position = @ - 1]
                    ELSE r
    IN  BagOfAll(Moved, rows)

\* the statement executed on the transitions of the removed song is a SELECT:
\* it returns the rows and deletes none
TransitionsAfterRemove(song_id) == mood_chain_transitions

RemoveSong(owner_id, song_id) ==
    LET args == <<song_id>>
        found == get_mood_chain_by_id(owner_id)
        existing == get_mood_chain_song(song_id)
    IN  IF found = {} THEN Raise("remove", owner_id, args, "MoodChainNotFoundError")
        ELSE IF existing = EmptyBag
             THEN Raise("remove", owner_id, args, "SongNotInMoodChainError")
        ELSE IF BagCardinality(existing) > 1
             THEN Raise("remove", owner_id, args, "MultipleResultsFound")
        ELSE LET mood_chain == CHOOSE c \in found : TRUE
                 mood_chain_song == CHOOSE r \in BagToSet(existing) : TRUE
                 removed_position == mood_chain_song.position
                 rows == ShiftDown(mood_chain_songs (-) SetToBag({mood_chain_song}),
                                   removed_position)
             IN  /\ mood_chain_songs' = rows
                 /\ mood_chain_transitions' = TransitionsAfterRemove(song_id)
                 /\ mood_chains' = {recalculate_mood_chain_stats(mood_chain, rows)}
                 /\ lastCall' = Call("remove", owner_id, args, "ok")
                 /\ streak' = NoStreak
                 /\ UNCHANGED <<sessions, now, traversals, library>>

(***************************************************************************)
(* reorder_mood_chain_songs                                                *)
(***************************************************************************)
MemberSongIds(rows) == {r.song_id : r \in BagToSet(rows)}

\* SongIdsMatch with the comparison weakened to "every given id is a member"
SongIdsSubset(song_ids, rows) == Range(song_ids) \subseteq MemberSongIds(rows)

\* the check of the request against the chain: the set of the given ids is the
\* set of the member songs
SongIdsMatch(song_ids, rows) == Range(song_ids) = MemberSongIds(rows)

\* the first row of a song in the order the relationship loads the rows
\* (order_by position)
FirstRowOf(rows, song_id) ==
    LET mine == {r \in BagToSet(rows) : r.song_id = song_id}
    IN  CHOOSE r \in mine : \A x \in mine : r.position <= x.position

\* the loop over enumerate(song_ids), from the k-th id on: the first loaded row
\* of the id gets the id's index as position.  first[s] is that row of song s
\* as the loop has left it so far
RECURSIVE UpdatePositions(_, _, _, _)
UpdatePositions(rows, first, song_ids, k) ==
    IF k > Len(song_ids) THEN rows
    ELSE LET song_id == song_ids[k]
             mcs == MemberRow(song_id, k - 1)
         IN  UpdatePositions((rows (-) SetToBag({first[song_id]})) (+) SetToBag({mcs}),
                             [first EXCEPT ![song_id] = mcs], song_ids, k + 1)

Reorder(owner_id, song_ids) ==
    LET args == <<song_ids>>
        found == get_mood_chain_by_id(owner_id)
    IN  IF found = {} THEN Raise("reorder", owner_id, args, "MoodChainNotFoundError")
        ELSE IF ~SongIdsMatch(song_ids, mood_chain_songs)
             THEN Raise("reorder", owner_id, args, "ValueError")
        ELSE /\ mood_chain_songs' =
                    UpdatePositions(
                        mood_chain_songs,
                        [s \in MemberSongIds(mood_chain_songs) |->
                            FirstRowOf(mood_chain_songs, s)],
                        song_ids, 1)
             /\ lastCall' = Call("reorder", owner_id, args, "ok")
             /\ streak' = NoStreak
             /\ UNCHANGED <<sessions, mood_chains, mood_chain_transitions, now,
                            traversals, library>>

(***************************************************************************)
(* update_transitions                                                      *)
(***************************************************************************)
TransitionRow(from_song_id, to_song_id, weight, play_count) ==
    [from_song_id |-> from_song_id, to_song_id |-> to_song_id,
     weight |-> weight, play_count |-> play_count]

\* WeightIsValid without the upper limit
WeightNotNegative(weight) == FLeq(Zero, weight)

\* MoodChainTransitionBase: weight: float = Field(ge=0.0, le=1.0)
WeightIsValid(weight) == FLeq(Zero, weight) /\ FLeq(weight, One)

\* the rows a query sees: the flushed rows, and the pending ones only when the
\* session flushes before a query
Visible(table, pending) ==
    IF autoflush THEN table \cup Range(pending) ELSE table

\* the loop over the request's transitions, from the k-th on.  `table` are the
\* rows of the database (their weights as changed so far), `pending` the new
\* rows added to the session and not flushed
RECURSIVE UpdateLoop(_, _, _, _, _)
UpdateLoop(table, pending, transitions, song_ids_in_chain, k) ==
    IF k > Len(transitions) THEN [table |-> table, pending |-> pending]
    ELSE LET data == transitions[k]
             existing == get_transition(Visible(table, pending),
                                        data.from_song_id, data.to_song_id)
         IN  IF \/ data.from_song_id \notin song_ids_in_chain
                \/ data.to_song_id \notin song_ids_in_chain
             THEN UpdateLoop(table, pending, transitions, song_ids_in_chain, k + 1)
             ELSE IF existing # {}
             THEN LET old == CHOOSE t \in existing : TRUE
                      new == [old EXCEPT !.weight = data.weight]
                  IN  IF old \in table
                      THEN UpdateLoop((table \ {old}) \cup {new}, pending,
                                      transitions, song_ids_in_chain, k + 1)
                      ELSE UpdateLoop(table,
                                      [i \in DOMAIN pending |->
                                          IF pending[i] = old THEN new ELSE pending[i]],
                                      transitions, song_ids_in_chain, k + 1)
             ELSE UpdateLoop(table,
                             Append(pending,
                                    TransitionRow(data.from_song_id, data.to_song_id,
                                                  data.weight, 0)),
                             transitions, song_ids_in_chain, k + 1)

\* the unique index on (mood_chain_id, from_song_id, to_song_id) accepts the rows
UniquePairs(table, pending) ==
    /\ \A i, j \in DOMAIN pending :
          (/\ pending[i].from_song_id = pending[j].from_song_id
           /\ pending[i].to_song_id = pending[j].to_song_id) => i = j
    /\ \A i \in DOMAIN pending :
          get_transition(table, pending[i].from_song_id, pending[i].to_song_id) = {}

\* the foreign keys from_song_id, to_song_id -> songs.id accept the row
SongsExist(from_song_id, to_song_id) ==
    /\ \E s \in songs : s.id = from_song_id
    /\ \E s \in songs : s.id = to_song_id

UpdateTransitions(owner_id, transitions) ==
    LET args == <<transitions>>
        found == get_mood_chain_by_id(owner_id)
        song_ids_in_chain == MemberSongIds(mood_chain_songs)
        done == UpdateLoop(mood_chain_transitions, <<>>, transitions,
                           song_ids_in_chain, 1)
    IN  IF \E i \in DOMAIN transitions : ~WeightIsValid(transitions[i].weight)
        THEN Raise("update_transitions", owner_id, args, "ValidationError")
        ELSE IF found = {}
        THEN Raise("update_transitions", owner_id, args, "MoodChainNotFoundError")
        ELSE IF ~UniquePairs(done.table, done.pending)
        THEN Raise("update_transitions", owner_id, args, "IntegrityError")
        ELSE /\ mood_chain_transitions' = done.table \cup Range(done.pending)
             /\ lastCall' = Call("update_transitions", owner_id, args, "ok")
             /\ streak' = NoStreak
             /\ UNCHANGED <<sessions, mood_chains, mood_chain_songs, now,
                            traversals, library>>

(***************************************************************************)
(* record_transition_played                                                *)
(***************************************************************************)
\* weight=0.6 of a transition created by a play
InitialWeight == FDiv(6, 10)

\* transition.weight + 0.05
WeightStep == FDiv(5, 100)

\* Reinforce without the cap
ReinforceUncapped(weight) == FAdd(weight, WeightStep)

\* min(1.0, transition.weight + 0.05)
Reinforce(weight) == FMin(One, FAdd(weight, WeightStep))

\* the transition row after the play: the existing row reinforced, or a new row
PlayedTransition(existing, from_song_id, to_song_id) ==
    IF existing # {}
    THEN LET transition == CHOOSE t \in existing : TRUE
         IN  [transition EXCEPT !.play_count = @ + 1,
                                !.weight = Reinforce(transition.weight)]
    ELSE TransitionRow(from_song_id, to_song_id, InitialWeight, 1)

\* PlayedChain counting a play only the first time the chain is played
PlayedChainOnce(mood_chain, time) ==
    [mood_chain EXCEPT !.play_count = IF @ = 0 THEN 1 ELSE @,
                       !.last_played_at = time]

\* mood_chain.play_count += 1; mood_chain.last_played_at = datetime.now(UTC)
PlayedChain(mood_chain, time) ==
    [mood_chain EXCEPT !.play_count = @ + 1, !.last_played_at = time]

RecordTransitionPlayed(owner_id, from_song_id, to_song_id) ==
    LET args == <<from_song_id, to_song_id>>
        found == get_mood_chain_by_id(owner_id)
        existing == get_transition(mood_chain_transitions, from_song_id, to_song_id)
    IN  IF found = {}
        THEN Raise("record_transition_played", owner_id, args, "MoodChainNotFoundError")
        ELSE IF existing = {} /\ ~SongsExist(from_song_id, to_song_id)
        THEN Raise("record_transition_played", owner_id, args, "IntegrityError")
        ELSE LET mood_chain == CHOOSE c \in found : TRUE
             IN  /\ now' = now + 1
                 /\ mood_chain_transitions' =
                        (mood_chain_transitions \ existing)
                            \cup {PlayedTransition(existing, from_song_id, to_song_id)}
                 /\ mood_chains' = {PlayedChain(mood_chain, now')}
                 /\ lastCall' = Call("record_transition_played", owner_id, args, "ok")
                 /\ traversals' = traversals + 1
                 /\ streak' =
                        IF existing = {}
                        THEN [from_song_id |-> from_song_id, to_song_id |-> to_song_id,
                              calls |-> 1]
                        ELSE IF /\ streak.from_song_id = from_song_id
                                /\ streak.to_song_id = to_song_id
                        THEN [streak EXCEPT !.calls = @ + 1]
                        ELSE NoStreak
                 /\ UNCHANGED <<sessions, mood_chain_songs, library>>

(***************************************************************************)
(* update_mood_chain and delete_mood_chain                                 *)
(***************************************************************************)
TransitionStyle == {"smooth", "random", "energy_flow", "genre_match"}

\* setattr(mood_chain, field, value) for the fields given: the transition style
UpdateMoodChain(owner_id, transition_style) ==
    LET args == <<transition_style>>
        found == get_mood_chain_by_id(owner_id)
    IN  IF found = {}
        THEN Raise("update", owner_id, args, "MoodChainNotFoundError")
        ELSE /\ mood_chains' =
                    {[c EXCEPT !.transition_style = transition_style] : c \in found}
             /\ lastCall' = Call("update", owner_id, args, "ok")
             /\ streak' = NoStreak
             /\ UNCHANGED <<sessions, mood_chain_songs, mood_chain_transitions, now,
                            traversals, library>>

\* db.delete(mood_chain): the member and transition rows go with the chain
\* (cascade="all, delete-orphan")
DeleteMoodChain(owner_id) ==
    LET found == get_mood_chain_by_id(owner_id)
    IN  IF found = {}
        THEN Raise("delete", owner_id, <<>>, "MoodChainNotFoundError")
        ELSE /\ mood_chains' = {}
             /\ mood_chain_songs' = EmptyBag
             /\ mood_chain_transitions' = {}
             /\ traversals' = 0
             /\ lastCall' = Call("delete", owner_id, <<>>, "ok")
             /\ streak' = NoStreak
             /\ UNCHANGED <<sessions, now, library>>

(***************************************************************************)
(* get_next_song_suggestions                                               *)
(***************************************************************************)
\* a call that returns a value
Return(op, owner_id, args, value) ==
    [op |-> op, owner_id |-> owner_id, args |-> args, result |-> "ok",
     value |-> value]

\* a call of get_mood_chain_by_id: the row, or none for None
GetMoodChainById(owner_id) ==
    /\ lastCall' = Return("get_mood_chain_by_id", owner_id, <<>>,
                          get_mood_chain_by_id(owner_id))
    /\ streak' = NoStreak
    /\ UNCHANGED <<sessions, db, now, traversals, library>>

\* mood_chain.mood_chain_songs (order_by position): the orders the database
\* may give the member rows in
OrderedRows(rows) ==
    {seq \in [1..BagCardinality(rows) -> BagToSet(rows)] :
        /\ \A r \in BagToSet(rows) :
              Cardinality({i \in DOMAIN seq : seq[i] = r}) = CopiesIn(r, rows)
        /\ \A i, j \in DOMAIN seq : i < j => seq[i].position <= seq[j].position}

SongSuggestion(song_id, weight, reason) ==
    [song_id |-> song_id, weight |-> weight, reason |-> reason]

\* max(0.0, 1.0 - (energy_diff + valence_diff) / 2.0)
SmoothWeight(song, current_song) ==
    LET energy_diff == FAbsDiff(song.energy, current_song.energy)
        valence_diff == FAbsDiff(song.valence, current_song.valence)
        half == FDivInt(FAdd(energy_diff, valence_diff), 2)
    IN  IF FLess(One, half) THEN Zero ELSE FAbsDiff(One, half)

\* 0.7 + (song.energy - current_song.energy) * 0.3, for song.energy >= current
EnergyFlowWeight(song, current_song) ==
    FAdd(FDiv(7, 10),
         FMul(FAbsDiff(song.energy, current_song.energy), FDiv(3, 10)))

\* truth of a str | None: neither None nor empty
Truthy(str) == str # NoneStr /\ str # ""

\* no transition looked up: every candidate is scored by the style
NoneLearned(transitions, song) == {}

\* mcs.song_id in transitions: the transitions from the current song to `song`
Learned(transitions, song) == {t \in transitions : t.to_song_id = song.id}

\* weight and reason of one candidate; `transitions` are the chain's
\* transitions from the current song, `random` the value random.random() gives
Suggest(mood_chain, song, current_song, transitions, random) ==
    LET learned == Learned(transitions, song)
        style == mood_chain.transition_style
        default == SongSuggestion(song.id, FDiv(5, 10), "default suggestion")
    IN  IF learned # {}
        THEN SongSuggestion(song.id, (CHOOSE t \in learned : TRUE).weight,
                            "high transition weight")
        ELSE IF style = "smooth"
        THEN IF /\ song.energy # NoneFloat /\ song.valence # NoneFloat
                /\ current_song.energy # NoneFloat
                /\ current_song.valence # NoneFloat
             THEN SongSuggestion(song.id, SmoothWeight(song, current_song),
                                 "similar energy/valence")
             ELSE default
        ELSE IF style = "energy_flow"
        THEN IF song.energy # NoneFloat /\ current_song.energy # NoneFloat
             THEN IF FLeq(current_song.energy, song.energy)
                  THEN SongSuggestion(song.id, EnergyFlowWeight(song, current_song),
                                      "increasing energy")
                  ELSE SongSuggestion(song.id, FDiv(3, 10), "lower energy")
             ELSE default
        ELSE IF style = "genre_match"
        THEN IF Truthy(song.genre) /\ Truthy(current_song.genre)
             THEN IF song.genre = current_song.genre
                  THEN SongSuggestion(song.id, FDiv(9, 10), "same genre")
                  ELSE SongSuggestion(song.id, FDiv(3, 10), "different genre")
             ELSE default
        ELSE SongSuggestion(song.id, random, "random selection")

\* the suggestions for the member rows ordered[k..], skipping the current song
RECURSIVE BuildSuggestions(_, _, _, _, _, _)
BuildSuggestions(mood_chain, ordered, current_song, transitions, randoms, k) ==
    IF k > Len(ordered) THEN <<>>
    ELSE LET rest == BuildSuggestions(mood_chain, ordered, current_song,
                                      transitions, randoms, k + 1)
             song == CHOOSE x \in songs : x.id = ordered[k].song_id
         IN  IF ordered[k].song_id = current_song.id THEN rest
             ELSE <<Suggest(mood_chain, song, current_song, transitions,
                            randoms[k])>> \o rest

\* x put in the list sorted by weight descending, behind the entries of its
\* weight (list.sort is stable, also with reverse=True)
RECURSIVE InsertByWeight(_, _)
InsertByWeight(sorted, x) ==
    IF sorted = <<>> THEN <<x>>
    ELSE IF FLess(Head(sorted).weight, x.weight) THEN <<x>> \o sorted
    ELSE <<Head(sorted)>> \o InsertByWeight(Tail(sorted), x)

\* suggestions.sort(key=lambda x: x["weight"], reverse=True)
RECURSIVE SortByWeight(_, _)
SortByWeight(suggestions, k) ==
    IF k = 0 THEN <<>>
    ELSE InsertByWeight(SortByWeight(suggestions, k - 1), suggestions[k])

\* the suggestions behind the first exclude_recent ones: the most likely next
\* songs taken for the recently played ones and left out
WithoutRecent(suggestions, exclude_recent) ==
    IF exclude_recent > 0 /\ Len(suggestions) > exclude_recent
    THEN SubSeq(suggestions, exclude_recent + 1, Len(suggestions))
    ELSE suggestions

\* suggestions[:exclude_recent] when exclude_recent > 0 and the list is longer
ExcludeRecent(suggestions, exclude_recent) ==
    IF exclude_recent > 0 /\ Len(suggestions) > exclude_recent
    THEN SubSeq(suggestions, 1, exclude_recent)
    ELSE suggestions

\* `ordered` is the order the member rows are loaded in, `randoms` the values
\* random.random() gives, one per member row
GetNextSongSuggestions(owner_id, current_song_id, exclude_recent, ordered, randoms) ==
    LET args == <<current_song_id, exclude_recent>>
        op == "get_next_song_suggestions"
        found == get_mood_chain_by_id(owner_id)
        current == get_song(current_song_id, owner_id)
        transitions == {t \in mood_chain_transitions :
                            t.from_song_id = current_song_id}
    IN  IF found = {}
        THEN Raise(op, owner_id, args, "MoodChainNotFoundError")
        ELSE IF mood_chain_songs = EmptyBag
        THEN /\ lastCall' = Return(op, owner_id, args, <<>>)
             /\ streak' = NoStreak
             /\ UNCHANGED <<sessions, db, now, traversals, library>>
        ELSE IF current = {}
        THEN Raise(op, owner_id, args, "SongNotFoundError")
        ELSE LET suggestions ==
                     BuildSuggestions(CHOOSE c \in found : TRUE, ordered,
                                      CHOOSE x \in current : TRUE,
                                      transitions, randoms, 1)
             IN  /\ lastCall' =
                        Return(op, owner_id, args,
                               ExcludeRecent(SortByWeight(suggestions,
                                                          Len(suggestions)),
                                             exclude_recent))
                 /\ streak' = NoStreak
                 /\ UNCHANGED <<sessions, db, now, traversals, library>>

(***************************************************************************)
(* create_from_history.  `history` is the caller's listening history in    *)
(* played_at order, one song id per entry; the k-th entry was played at    *)
(* time k.  A date of 0 is "not given".                                    *)
(***************************************************************************)
\* the entries of the time window, as (played_at, song_id), in order
HistoryEntries(history, from_date, to_date) ==
    LET all == [k \in DOMAIN history |-> [played_at |-> k, song_id |-> history[k]]]
        Keep(e) == /\ (from_date # 0 => e.played_at >= from_date)
                   /\ (to_date # 0 => e.played_at <= to_date)
    IN  SelectSeq(all, Keep)

\* song_play_counts[song_id]
SongPlayCount(entries, song_id) ==
    Cardinality({k \in DOMAIN entries : entries[k].song_id = song_id})

\* every song of the entries, however few its plays
PlayedSongs(entries, min_plays) ==
    {entries[k].song_id : k \in DOMAIN entries}

\* valid_songs: the songs of count >= data.min_plays
ValidSongs(entries, min_plays) ==
    {song_id \in {entries[k].song_id : k \in DOMAIN entries} :
        SongPlayCount(entries, song_id) >= min_plays}

\* the walk in which an entry of a song that is not valid forgets the
\* previous song
RECURSIVE CountedWithReset(_, _, _, _)
CountedWithReset(entries, valid_songs, prev_song_id, k) ==
    IF k > Len(entries) THEN <<>>
    ELSE IF entries[k].song_id \in valid_songs
    THEN (IF prev_song_id # "" /\ prev_song_id \in valid_songs
          THEN <<<<prev_song_id, entries[k].song_id>>>>
          ELSE <<>>)
         \o CountedWithReset(entries, valid_songs, entries[k].song_id, k + 1)
    ELSE CountedWithReset(entries, valid_songs, "", k + 1)

\* the walk over the entries from the k-th on: the bag of (prev, current) pairs
\* counted, as a sequence of pairs; prev is "" before the first valid song
RECURSIVE CountedTransitions(_, _, _, _)
CountedTransitions(entries, valid_songs, prev_song_id, k) ==
    IF k > Len(entries) THEN <<>>
    ELSE IF entries[k].song_id \in valid_songs
    THEN (IF prev_song_id # "" /\ prev_song_id \in valid_songs
          THEN <<<<prev_song_id, entries[k].song_id>>>>
          ELSE <<>>)
         \o CountedTransitions(entries, valid_songs, entries[k].song_id, k + 1)
    ELSE CountedTransitions(entries, valid_songs, prev_song_id, k + 1)

\* every pair counted once, however often it was walked
PairSeen(counted, from_id, to_id) == 1

\* transition_counts[(from_id, to_id)]
TransitionCount(counted, from_id, to_id) ==
    Cardinality({k \in DOMAIN counted : counted[k] = <<from_id, to_id>>})

\* from_song_totals counting the transitions of every source song
AllSongsTotal(counted, from_id) == Len(counted)

\* from_song_totals[from_id]
FromSongTotal(counted, from_id) ==
    Cardinality({k \in DOMAIN counted : counted[k][1] = from_id})

\* the transition rows: weight = count / from_song_totals[from_id]
HistoryTransitions(counted) ==
    {TransitionRow(pair[1], pair[2],
                   FDiv(TransitionCount(counted, pair[1], pair[2]),
                        FromSongTotal(counted, pair[1])),
                   0) :
        pair \in {p \in Range(counted) : FromSongTotal(counted, p[1]) > 0}}

\* sorted(valid_songs, key=song_play_counts, reverse=True): the sort is stable
\* on the iteration order of a set, so songs with equal counts come in any order
IsSortedByPlays(sorted_songs, entries, valid_songs) ==
    /\ Len(sorted_songs) = Cardinality(valid_songs)
    /\ Range(sorted_songs) = valid_songs
    /\ \A i, j \in DOMAIN sorted_songs :
          i < j => SongPlayCount(entries, sorted_songs[i])
                       >= SongPlayCount(entries, sorted_songs[j])

CreateFromHistory(owner_id, history, min_plays, from_date, to_date, sorted_songs) ==
    LET entries == HistoryEntries(history, from_date, to_date)
        valid_songs == ValidSongs(entries, min_plays)
        counted == CountedTransitions(entries, valid_songs, "", 1)
        rows == SetToBag({MemberRow(sorted_songs[i], i - 1) : i \in DOMAIN sorted_songs})
    IN  /\ mood_chains = {}
        /\ IsSortedByPlays(sorted_songs, entries, valid_songs)
        /\ mood_chain_songs' = rows
        /\ mood_chain_transitions' = HistoryTransitions(counted)
        /\ mood_chains' =
              {recalculate_mood_chain_stats(NewMoodChain(owner_id, TRUE), rows)}
        /\ lastCall' = Call("create_from_history", owner_id,
                            <<history, min_plays, from_date, to_date>>, "ok")
        /\ streak' = NoStreak
        /\ UNCHANGED <<sessions, now, traversals, library>>

(***************************************************************************)
(* Song similarity (backend/app/services/recommendation.py).               *)
(***************************************************************************)
\* str.lower() on the strings of the songs table
Lower(str) ==
    CASE str = "Rock" -> "rock"
      [] str = "Jazz" -> "jazz"
      [] str = "Classical" -> "classical"
      [] str = "X" -> "x"
      [] str = "Y" -> "y"
      [] str = "Z" -> "z"
      [] OTHER -> str

\* truth of an int | None: neither None nor 0
TruthyInt(n) == n # NoneInt /\ n # 0

\* what one factor adds to weights_sum and to score, and its reason if any
Factor(weight, score, reasons) ==
    [weight |-> weight, score |-> score, reasons |-> reasons]

NoFactor == Factor(Zero, Zero, <<>>)

\* the tiers of a difference: full weight and the reason, then two lesser
\* scores, then nothing
Tiers(weight, within1, within2, within3, score2, score3, reason) ==
    IF within1 THEN Factor(weight, weight, <<reason>>)
    ELSE IF within2 THEN Factor(weight, score2, <<>>)
    ELSE IF within3 THEN Factor(weight, score3, <<>>)
    ELSE Factor(weight, Zero, <<>>)

\* the weights of the factors, the lesser scores of the tiers, the bounds of
\* the tiers of a difference, and the score when no factor has a weight
GenreWeight == FDiv(3, 10)
BpmWeight == FDiv(2, 10)
CloseBpmScore == FDiv(15, 100)
FarBpmScore == FDiv(1, 10)
EnergyWeight == FDiv(2, 10)
CloseEnergyScore == FDiv(15, 100)
FarEnergyScore == FDiv(1, 10)
ValenceWeight == FDiv(15, 100)
CloseValenceScore == FDiv(1, 10)
FarValenceScore == FDiv(5, 100)
ArtistBoost == FDiv(15, 100)
Tier1 == FDiv(1, 10)
Tier2 == FDiv(2, 10)
Tier3 == FDiv(3, 10)
FallbackScore == FDiv(3, 10)

GenreFactor(source, candidate) ==
    IF Truthy(source.genre) /\ Truthy(candidate.genre)
    THEN IF Lower(source.genre) = Lower(candidate.genre)
         THEN Factor(GenreWeight, GenreWeight, <<"same genre">>)
         ELSE Factor(GenreWeight, Zero, <<>>)
    ELSE NoFactor

\* source.bpm - candidate.bpm
BpmDifference(source, candidate) == source.bpm - candidate.bpm

\* abs(source.bpm - candidate.bpm)
BpmDiff(source, candidate) ==
    IF source.bpm >= candidate.bpm THEN source.bpm - candidate.bpm
    ELSE candidate.bpm - source.bpm

BpmFactor(source, candidate) ==
    IF TruthyInt(source.bpm) /\ TruthyInt(candidate.bpm)
    THEN LET bpm_diff == BpmDiff(source, candidate)
         IN  IF bpm_diff <= 10
             THEN Factor(BpmWeight, BpmWeight, <<"similar BPM">>)
             ELSE IF bpm_diff <= 20
             THEN Factor(BpmWeight, CloseBpmScore, <<"close BPM">>)
             ELSE IF bpm_diff <= 30
             THEN Factor(BpmWeight, FarBpmScore, <<>>)
             ELSE Factor(BpmWeight, Zero, <<>>)
    ELSE NoFactor

EnergyFactor(source, candidate) ==
    IF source.energy # NoneFloat /\ candidate.energy # NoneFloat
    THEN LET energy_diff == FAbsDiff(source.energy, candidate.energy)
         IN  Tiers(EnergyWeight,
                   FLeq(energy_diff, Tier1),
                   FLeq(energy_diff, Tier2),
                   FLeq(energy_diff, Tier3),
                   CloseEnergyScore, FarEnergyScore, "similar energy")
    ELSE NoFactor

ValenceFactor(source, candidate) ==
    IF source.valence # NoneFloat /\ candidate.valence # NoneFloat
    THEN LET valence_diff == FAbsDiff(source.valence, candidate.valence)
         IN  Tiers(ValenceWeight,
                   FLeq(valence_diff, Tier1),
                   FLeq(valence_diff, Tier2),
                   FLeq(valence_diff, Tier3),
                   CloseValenceScore, FarValenceScore, "similar mood")
    ELSE NoFactor

\* the artist weight entering weights_sum only when both songs have an artist
ArtistWeightIfPresent(source, candidate) ==
    IF Truthy(source.artist) /\ Truthy(candidate.artist)
    THEN ArtistBoost ELSE Zero

\* weights_sum += 0.15, whatever the artists are
ArtistWeight(source, candidate) == ArtistBoost

ArtistFactor(source, candidate) ==
    IF /\ Truthy(source.artist)
       /\ Truthy(candidate.artist)
       /\ Lower(source.artist) = Lower(candidate.artist)
    THEN Factor(ArtistWeight(source, candidate), ArtistBoost,
                <<"same artist">>)
    ELSE Factor(ArtistWeight(source, candidate), Zero, <<>>)

\* the five contributions added up in the order the code adds them
FactorSum(genre, bpm, energy, valence, artist) ==
    FAdd(FAdd(FAdd(FAdd(FAdd(Zero, genre), bpm), energy), valence), artist)

\* normalized_score = score / weights_sum if weights_sum > 0 else 0.3
Normalized(score, weights_sum) ==
    IF FLess(Zero, weights_sum) THEN FDivF(score, weights_sum)
    ELSE FallbackScore

\* what _calculate_similarity returns for the five factors, and the
\* weights_sum the score was normalised by
SimilarityResult(genre, bpm, energy, valence, artist, score, weights_sum) ==
    [score |-> FMax(Zero, FMin(One, Normalized(score, weights_sum))),
     reasons |-> genre.reasons \o bpm.reasons \o energy.reasons
                   \o valence.reasons \o artist.reasons,
     weights_sum |-> weights_sum]

\* the factors of _calculate_similarity put together
SimilarityOf(genre, bpm, energy, valence, artist) ==
    SimilarityResult(genre, bpm, energy, valence, artist,
                     FactorSum(genre.score, bpm.score, energy.score,
                               valence.score, artist.score),
                     FactorSum(genre.weight, bpm.weight, energy.weight,
                               valence.weight, artist.weight))

\* _calculate_similarity: the score, the reasons, and the weights_sum the
\* score was normalised by
calculate_similarity(source, candidate) ==
    SimilarityOf(GenreFactor(source, candidate),
                 BpmFactor(source, candidate),
                 EnergyFactor(source, candidate),
                 ValenceFactor(source, candidate),
                 ArtistFactor(source, candidate))

\* a call of _calculate_similarity on two song rows
CalculateSimilarity(owner_id, source, candidate) ==
    /\ lastCall' = Return("calculate_similarity", owner_id, <<source, candidate>>,
                          calculate_similarity(source, candidate))
    /\ streak' = NoStreak
    /\ UNCHANGED <<sessions, db, now, traversals, library>>

(***************************************************************************)
(* The cache (backend/app/services/cache.py).  A key is the tuple of the   *)
(* segments its string has between the colons.  A call finds the Redis     *)
(* client working ("ok"), absent ("unavailable": _get_client gave None) or *)
(* raising ("fails").                                                      *)
(***************************************************************************)
CacheOutcomes == {"ok", "unavailable", "fails"}

\* an exception escaping a method: with it the method would raise
Uncaught(error) == error

\* except Exception: the error is logged and the method returns
Caught(error) == ""

\* the cache with `key` holding `value`
CacheWith(key, value) ==
    [k \in DOMAIN cache \cup {key} |-> IF k = key THEN value ELSE cache[k]]

\* the cache without `keys`
CacheWithout(keys) == [k \in DOMAIN cache \ keys |-> cache[k]]

\* CacheService.get: `hit` tells a value from None
cache_get(key, outcome) ==
    IF outcome = "unavailable" THEN [error |-> "", hit |-> FALSE]
    ELSE IF outcome = "fails" THEN [error |-> Caught("RedisError"), hit |-> FALSE]
    ELSE IF key \in DOMAIN cache
    THEN [error |-> "", hit |-> TRUE, value |-> cache[key]]
    ELSE [error |-> "", hit |-> FALSE]

\* CacheService.set: what it returns and the cache it leaves
cache_set(key, value, outcome) ==
    IF outcome = "unavailable" THEN [error |-> "", returns |-> FALSE, cache |-> cache]
    ELSE IF outcome = "fails"
    THEN [error |-> Caught("RedisError"), returns |-> FALSE, cache |-> cache]
    ELSE [error |-> "", returns |-> TRUE, cache |-> CacheWith(key, value)]

\* CacheService.delete
cache_delete(key, outcome) ==
    IF outcome = "unavailable" THEN [error |-> "", returns |-> FALSE, cache |-> cache]
    ELSE IF outcome = "fails"
    THEN [error |-> Caught("RedisError"), returns |-> FALSE, cache |-> cache]
    ELSE [error |-> "", returns |-> TRUE, cache |-> CacheWithout({key})]

\* a key matches a pattern of segments ending in "*": it starts with the
\* segments before the "*"
Matches(key, pattern) ==
    /\ Len(key) >= Len(pattern) - 1
    /\ \A i \in 1..(Len(pattern) - 1) : key[i] = pattern[i]

\* CacheService.delete_pattern
cache_delete_pattern(pattern, outcome) ==
    IF outcome = "unavailable" THEN [error |-> "", returns |-> FALSE, cache |-> cache]
    ELSE IF outcome = "fails"
    THEN [error |-> Caught("RedisError"), returns |-> FALSE, cache |-> cache]
    ELSE [error |-> "", returns |-> TRUE,
          cache |-> CacheWithout({k \in DOMAIN cache : Matches(k, pattern)})]

\* the cache calls of a request, as history: the method, the outcome of the
\* client, and whether the method gave a value (get) or True (the others)
CacheCall(method, outcome, returned) ==
    [method |-> method, outcome |-> outcome, returned |-> returned]

\* a key expires (its TTL has run out)
Expire(key) ==
    /\ key \in DOMAIN cache
    /\ cache' = CacheWithout({key})
    /\ lastCall' = Call("expire", "", <<key>>, "ok")
    /\ streak' = NoStreak
    /\ UNCHANGED <<sessions, db, now, traversals, song_play_count, song_last_played_at>>

\* a call that returns, and the cache calls it made
Answer(op, owner_id, args, value, cache_calls) ==
    [op |-> op, owner_id |-> owner_id, args |-> args, result |-> "ok",
     value |-> value, cache_calls |-> cache_calls]

\* a direct CacheService.delete
CacheDelete(key, outcome) ==
    LET deleted == cache_delete(key, outcome)
    IN  IF deleted.error # ""
        THEN Raise("cache_delete", "", <<key>>, deleted.error)
        ELSE /\ cache' = deleted.cache
             /\ lastCall' = Answer("cache_delete", "", <<key>>, deleted.returns,
                                   <<CacheCall("delete", outcome, deleted.returns)>>)
             /\ streak' = NoStreak
             /\ UNCHANGED <<sessions, db, now, traversals, song_play_count,
                            song_last_played_at>>

(***************************************************************************)
(* Plays and recommendations (backend/app/services/stats.py and            *)
(* recommendation.py).  The listening_history rows a play adds are read by *)
(* create_from_history alone, whose request carries the history it reads.  *)
(***************************************************************************)
\* str(n) of an int below 100
Digit(d) ==
    CASE d = 0 -> "0" [] d = 1 -> "1" [] d = 2 -> "2" [] d = 3 -> "3"
      [] d = 4 -> "4" [] d = 5 -> "5" [] d = 6 -> "6" [] d = 7 -> "7"
      [] d = 8 -> "8" [] d = 9 -> "9"

Str(n) == IF n < 10 THEN Digit(n) ELSE Digit(n \div 10) \o Digit(n % 10)

\* select(Song).where(Song.owner_id == user_id)
UserSongs(user_id) == {s \in songs : s.owner_id = user_id}

SongById(id) == CHOOSE s \in songs : s.id = id

\* seq[:n]
Take(seq, n) == SubSeq(seq, 1, IF n < Len(seq) THEN n ELSE Len(seq))

\* an element to sort, and the rank the sort goes by
Ranked(id, rank) == [id |-> id, rank |-> rank]

\* the orders a descending sort (ORDER BY ... DESC, or list.sort with
\* reverse=True on rows the database gave in any order) may leave the ranked
\* elements in: elements of equal rank come in any order
RECURSIVE DescOrders(_)
DescOrders(ranked) ==
    IF ranked = {} THEN {<<>>}
    ELSE LET top == {x \in ranked : \A y \in ranked : y.rank <= x.rank}
         IN  UNION {{<<x.id>> \o rest : rest \in DescOrders(ranked \ {x})} :
                       x \in top}

\* the ids ranked by play_count
ByPlayCount(ids) == {Ranked(id, song_play_count[id]) : id \in ids}

\* _calculate_similarity on every two rows of the songs table, whose features
\* no request changes
SongSimilarity ==
    {[source |-> a.id, candidate |-> b.id, value |-> calculate_similarity(a, b)] :
        a \in songs, b \in songs}

\* self._calculate_similarity(source, candidate) on the rows of two song ids
Similarity_of(source_id, candidate_id) ==
    (CHOOSE e \in SongSimilarity :
        e.source = source_id /\ e.candidate = candidate_id).value

\* StatsService.record_play: the play is counted and dated, and the user's
\* stats keys are dropped
RecordPlay(user_id, song_id, outcome) ==
    LET song == {s \in songs : s.id = song_id /\ s.owner_id = user_id}
        dropped == cache_delete_pattern(<<"stats", user_id, "*">>, outcome)
    IN  IF song = {}
        THEN Raise("record_play", user_id, <<song_id>>, "SongNotFoundError")
        ELSE IF dropped.error # ""
        THEN Raise("record_play", user_id, <<song_id>>, dropped.error)
        ELSE /\ now' = now + 1
             /\ song_play_count' =
                   [song_play_count EXCEPT ![song_id] = song_play_count[song_id] + 1]
             /\ song_last_played_at' =
                   [song_last_played_at EXCEPT ![song_id] = now']
             /\ cache' = dropped.cache
             /\ lastCall' = Answer("record_play", user_id, <<song_id>>, song_id,
                                   <<CacheCall("delete_pattern", outcome,
                                               dropped.returns)>>)
             /\ streak' = NoStreak
             /\ UNCHANGED <<sessions, db, traversals>>

\* one entry of get_similar_songs
Scored(song_id, score, reasons) ==
    [song_id |-> song_id, score |-> score, reasons |-> reasons]

\* the entries ranked by score: the number of entries of lesser score
ByScore(scored) ==
    {Ranked(x, Cardinality({y \in scored : FLess(y.score, x.score)})) :
        x \in scored}

\* the lists get_similar_songs may compute: the user's other songs of a score
\* above 0, by score, cut at the limit
SimilarSongs(user_id, song_id, limit) ==
    LET candidate_songs == {s \in UserSongs(user_id) : s.id # song_id}
        all_scored == {Scored(c.id, Similarity_of(song_id, c.id).score,
                              Similarity_of(song_id, c.id).reasons) :
                          c \in candidate_songs}
        scored_songs == {x \in all_scored : FLess(Zero, x.score)}
    IN  {Take(sorted, limit) : sorted \in DescOrders(ByScore(scored_songs))}

\* get_similar_songs
GetSimilarSongs(user_id, song_id, limit, get_outcome, set_outcome) ==
    LET op == "get_similar_songs"
        args == <<song_id, limit>>
        source == {s \in songs : s.id = song_id /\ s.owner_id = user_id}
        cache_key == <<"recommendations", "similar", user_id, song_id, Str(limit)>>
        cached == cache_get(cache_key, get_outcome)
        got == CacheCall("get", get_outcome, cached.hit)
    IN  IF source = {} THEN Raise(op, user_id, args, "SongNotFoundError")
        ELSE IF cached.error # "" THEN Raise(op, user_id, args, cached.error)
        ELSE IF cached.hit /\ Len(cached.value) > 0
        THEN /\ lastCall' = Answer(op, user_id, args, cached.value, <<got>>)
             /\ streak' = NoStreak
             /\ UNCHANGED <<sessions, db, now, traversals, library>>
        ELSE \E similar_songs \in SimilarSongs(user_id, song_id, limit) :
                LET put == cache_set(cache_key, similar_songs, set_outcome)
                IN  IF put.error # "" THEN Raise(op, user_id, args, put.error)
                    ELSE /\ cache' = put.cache
                         /\ lastCall' =
                               Answer(op, user_id, args, similar_songs,
                                      <<got, CacheCall("set", set_outcome,
                                                       put.returns)>>)
                         /\ streak' = NoStreak
                         /\ UNCHANGED <<sessions, db, now, traversals, song_play_count,
                                        song_last_played_at>>

\* timedelta(days=30), the clock counting days
ThirtyDays == 30

\* the first k scores of the top songs against a candidate, added up in order
RECURSIVE TotalScore(_, _, _)
TotalScore(top_songs, candidate, k) ==
    IF k = 0 THEN Zero
    ELSE FAdd(TotalScore(top_songs, candidate, k - 1),
              Similarity_of(top_songs[k], candidate).score)

\* avg_score = total_score / len(top_songs)
AvgScore(top_songs, candidate) ==
    FDivInt(TotalScore(top_songs, candidate, Len(top_songs)), Len(top_songs))

\* the candidates with their avg_score
AvgScores(top_songs, ids) ==
    {[id |-> c, avg_score |-> AvgScore(top_songs, c)] : c \in ids}

\* the candidates ranked by avg_score: the number of candidates of lesser score
ByAvgScore(scored) ==
    {Ranked(x.id, Cardinality({y \in scored : FLess(y.avg_score, x.avg_score)})) :
        x \in scored}

\* the long_time_no_listen section
LongTimeNoListen(user_id, limit) ==
    LET thirty_days_ago == now - ThirtyDays
        ids == {s.id : s \in {r \in UserSongs(user_id) :
                   /\ song_play_count[r.id] >= 5
                   /\ \/ song_last_played_at[r.id] = NoneInt
                      \/ song_last_played_at[r.id] < thirty_days_ago}}
    IN  {Take(o, limit) : o \in DescOrders(ByPlayCount(ids))}

\* the user's top 5 songs by play_count
TopSongs(user_id) ==
    {Take(o, 5) : o \in DescOrders(ByPlayCount({s.id : s \in UserSongs(user_id)}))}

\* the based_on_favorite section
BasedOnFavorite(user_id, top_songs, limit) ==
    IF top_songs = <<>> THEN {<<>>}
    ELSE LET candidate_songs == {s.id : s \in UserSongs(user_id)} \ Range(top_songs)
             scored_candidates == AvgScores(top_songs, candidate_songs)
         IN  {Take(o, limit) : o \in DescOrders(ByAvgScore(scored_candidates))}

\* the avg_score a hidden gem has more than
GemScore == FDiv(3, 10)

\* the hidden_gems section
HiddenGems(user_id, top_songs, limit) ==
    IF top_songs = <<>> THEN {<<>>}
    ELSE LET low_play_songs ==
                 {s.id : s \in {r \in UserSongs(user_id) :
                                  song_play_count[r.id] <= 3}} \ Range(top_songs)
             scored_gems == {x \in AvgScores(top_songs, low_play_songs) :
                                FLess(GemScore, x.avg_score)}
         IN  {Take(o, limit) : o \in DescOrders(ByAvgScore(scored_gems))}

Sections(long_time_no_listen, based_on_favorite, hidden_gems) ==
    [long_time_no_listen |-> long_time_no_listen,
     based_on_favorite |-> based_on_favorite, hidden_gems |-> hidden_gems]

\* the sections get_discover_recommendations may compute
DiscoverSections(user_id, limit) ==
    UNION {{Sections(l, b, g) : l \in LongTimeNoListen(user_id, limit),
                                b \in BasedOnFavorite(user_id, top_songs, limit),
                                g \in HiddenGems(user_id, top_songs, limit)} :
              top_songs \in TopSongs(user_id)}

\* get_discover_recommendations
GetDiscoverRecommendations(user_id, limit, get_outcome, set_outcome) ==
    LET op == "get_discover_recommendations"
        args == <<limit>>
        cache_key == <<"recommendations", "discover", user_id, Str(limit)>>
        cached == cache_get(cache_key, get_outcome)
        got == CacheCall("get", get_outcome, cached.hit)
    IN  IF cached.error # "" THEN Raise(op, user_id, args, cached.error)
        ELSE IF /\ cached.hit
                /\ Len(cached.value.long_time_no_listen)
                     + Len(cached.value.based_on_favorite)
                     + Len(cached.value.hidden_gems) > 0
        THEN /\ lastCall' = Answer(op, user_id, args, cached.value, <<got>>)
             /\ streak' = NoStreak
             /\ UNCHANGED <<sessions, db, now, traversals, library>>
        ELSE \E sections \in DiscoverSections(user_id, limit) :
                LET put == cache_set(cache_key, sections, set_outcome)
                IN  IF put.error # "" THEN Raise(op, user_id, args, put.error)
                    ELSE /\ cache' = put.cache
                         /\ lastCall' =
                               Answer(op, user_id, args, sections,
                                      <<got, CacheCall("set", set_outcome,
                                                       put.returns)>>)
                         /\ streak' = NoStreak
                         /\ UNCHANGED <<sessions, db, now, traversals, song_play_count,
                                        song_last_played_at>>

\* the moods of a mix request
NoMood == "None"
MoodType == {"energetic", "calm", "focus"}

\* the mood filter on energy
MoodAllows(mood, song) ==
    \/ mood = NoMood
    \/ song.energy = NoneFloat
    \/ mood = "energetic" /\ FLeq(FDiv(6, 10), song.energy)
    \/ mood = "calm" /\ FLeq(song.energy, FDiv(4, 10))
    \/ mood = "focus" /\ FLeq(FDiv(3, 10), song.energy)
           /\ FLeq(song.energy, FDiv(7, 10))

\* sum(s.duration_seconds for s in selected_songs)
RECURSIVE TotalDuration(_)
TotalDuration(song_ids) ==
    IF song_ids = <<>> THEN 0
    ELSE SongById(Head(song_ids)).duration_seconds + TotalDuration(Tail(song_ids))

\* song.artist or "Unknown"
ArtistOrUnknown(song) == IF Truthy(song.artist) THEN song.artist ELSE "Unknown"

\* an artist_counts that never counts
NeverCounted(song_ids, artist) == 0

\* artist_counts.get(artist, 0)
ArtistCount(song_ids, artist) ==
    Cardinality({k \in DOMAIN song_ids :
                    ArtistOrUnknown(SongById(song_ids[k])) = artist})

\* the selections the loop over all_songs may end with: the query orders the
\* rows by random() * 0.5 + play_count / 100.0 * 0.5, which puts rows whose
\* play counts differ by less than 100 in any order
RECURSIVE MixSelections(_, _, _)
MixSelections(remaining, selected_songs, target_duration) ==
    IF remaining = {} \/ TotalDuration(selected_songs) >= target_duration
    THEN {selected_songs}
    ELSE UNION {
            IF ArtistCount(selected_songs, ArtistOrUnknown(song)) >= 3
            THEN MixSelections(remaining \ {song}, selected_songs, target_duration)
            ELSE MixSelections(remaining \ {song}, Append(selected_songs, song.id),
                               target_duration) :
            song \in remaining}

Mix(song_ids, total_duration) ==
    [song_ids |-> song_ids, total_duration |-> total_duration]

\* the mixes get_personal_mix may compute
PersonalMixes(user_id, mood, duration_minutes) ==
    LET target_duration == duration_minutes * 60
        all_songs == {s \in UserSongs(user_id) : MoodAllows(mood, s)}
    IN  {Mix(selected_songs, TotalDuration(selected_songs)) :
            selected_songs \in MixSelections(all_songs, <<>>, target_duration)}

\* get_personal_mix
GetPersonalMix(user_id, mood, duration_minutes, get_outcome, set_outcome) ==
    LET op == "get_personal_mix"
        args == <<mood, duration_minutes>>
        cache_key == <<"recommendations", "mix", user_id, mood, Str(duration_minutes)>>
        cached == cache_get(cache_key, get_outcome)
        got == CacheCall("get", get_outcome, cached.hit)
    IN  IF cached.error # "" THEN Raise(op, user_id, args, cached.error)
        ELSE IF cached.hit
        THEN /\ lastCall' =
                   Answer(op, user_id, args,
                          IF Len(cached.value.song_ids) > 0 THEN cached.value
                          ELSE Mix(<<>>, 0),
                          <<got>>)
             /\ streak' = NoStreak
             /\ UNCHANGED <<sessions, db, now, traversals, library>>
        ELSE \E mix \in PersonalMixes(user_id, mood, duration_minutes) :
                LET put == cache_set(cache_key, mix, set_outcome)
                IN  IF put.error # "" THEN Raise(op, user_id, args, put.error)
                    ELSE /\ cache' = put.cache
                         /\ lastCall' =
                               Answer(op, user_id, args, mix,
                                      <<got, CacheCall("set", set_outcome,
                                                       put.returns)>>)
                         /\ streak' = NoStreak
                         /\ UNCHANGED <<sessions, db, now, traversals, song_play_count,
                                        song_last_played_at>>

\* RecommendationService._invalidate_user_cache
InvalidateUserCache(user_id, outcome) ==
    LET dropped == cache_delete_pattern(<<"recommendations", user_id, "*">>, outcome)
    IN  IF dropped.error # ""
        THEN Raise("invalidate_user_cache", user_id, <<>>, dropped.error)
        ELSE /\ cache' = dropped.cache
             /\ lastCall' = Answer("invalidate_user_cache", user_id, <<>>,
                                   dropped.returns,
                                   <<CacheCall("delete_pattern", outcome,
                                               dropped.returns)>>)
             /\ streak' = NoStreak
             /\ UNCHANGED <<sessions, db, now, traversals, song_play_count,
                            song_last_played_at>>

(***************************************************************************)
(* Requests, and the specifications.  Each specification draws the         *)
(* requests of the operations it is about from small sets.                 *)
(***************************************************************************)
OwnedSongIds == {s.id : s \in songs}

Positions == {NoPosition} \cup (0..MaxPosition)

\* the ordered pairs the record_transition_played requests name
RequestPairs == {<<"s1", "s2">>, <<"s2", "s1">>, <<"s1", "s9">>}

TransitionBase(from_song_id, to_song_id, weight) ==
    [from_song_id |-> from_song_id, to_song_id |-> to_song_id, weight |-> weight]

\* the entries of the update_transitions requests: weights 0.3 and 0.9, and
\* 1.5, which the schema rejects
TransitionData ==
    {TransitionBase("s1", "s2", FDiv(3, 10)),
     TransitionBase("s2", "s1", FDiv(9, 10)), TransitionBase("s1", "s2", FDiv(3, 2))}

Create(callers, ids, n) ==
    /\ mood_chains = {}
    /\ \E owner_id \in callers, song_ids \in SeqsUpTo(ids, n) :
          CreateMoodChain(owner_id, song_ids)

Add(callers, ids, positions) ==
    \E owner_id \in callers, song_id \in ids, position \in positions :
        AddSong(owner_id, song_id, position)

Remove(callers, ids) ==
    \E owner_id \in callers, song_id \in ids : RemoveSong(owner_id, song_id)

ReorderSongs(callers, ids) ==
    \E owner_id \in callers, song_ids \in SeqsUpTo(ids, MaxIds) :
        Reorder(owner_id, song_ids)

Update(callers) ==
    \E owner_id \in callers, transitions \in SeqsUpTo(TransitionData, MaxBatch) :
        UpdateTransitions(owner_id, transitions)

Record(callers, pairs, limit) ==
    /\ traversals < limit
    /\ \E owner_id \in callers, pair \in pairs :
          RecordTransitionPlayed(owner_id, pair[1], pair[2])

FromHistory(callers, ids) ==
    /\ mood_chains = {}
    /\ \E owner_id \in callers, history \in SeqsUpTo(ids, MaxLog),
          min_plays \in 1..2, from_date \in 0..1, to_date \in {0, MaxLog},
          sorted_songs \in SeqsUpTo(ids, Cardinality(ids)) :
            CreateFromHistory(owner_id, history, min_plays, from_date, to_date,
                              sorted_songs)

\* create_from_history on a listening history of up to n entries
FromLog(callers, ids, n) ==
    /\ mood_chains = {}
    /\ \E owner_id \in callers, history \in SeqsUpTo(ids, n),
          min_plays \in 1..2, from_date \in {0, 2}, to_date \in {0, n - 1},
          sorted_songs \in SeqsUpTo(ids, Cardinality(ids)) :
            CreateFromHistory(owner_id, history, min_plays, from_date, to_date,
                              sorted_songs)

\* the values random.random() is let give
RandomValues == {FDiv(1, 4), FDiv(3, 4)}

\* the values of n calls of random.random(); a chain of another style calls
\* it never
Randoms(n) ==
    IF \E c \in mood_chains : c.transition_style = "random"
    THEN [1..n -> RandomValues]
    ELSE {[k \in 1..n |-> Zero]}

Restyle(callers) ==
    \E owner_id \in callers, transition_style \in TransitionStyle :
        UpdateMoodChain(owner_id, transition_style)

Delete(callers) ==
    \E owner_id \in callers : DeleteMoodChain(owner_id)

SuggestNext(callers, ids, limits) ==
    \E owner_id \in callers, current_song_id \in ids, exclude_recent \in limits,
       ordered \in OrderedRows(mood_chain_songs) :
        \E randoms \in Randoms(Len(ordered)) :
            GetNextSongSuggestions(owner_id, current_song_id, exclude_recent,
                                   ordered, randoms)

\* membership by add and remove alone, on a chain created empty
NextAddRemove ==
    \/ Create(Users, SongIds, 0)
    \/ Add(Users, SongIds, Positions)
    \/ Remove(Users, SongIds)

SpecAddRemove == Init /\ [][NextAddRemove]_vars

\* every operation on the member rows
NextMembers ==
    \/ Create(Users, {"s1", "s2", "s9"}, MaxIds)
    \/ Add({"u1"}, SongIds, Positions)
    \/ Remove({"u1"}, SongIds)
    \/ ReorderSongs({"u1"}, {"s1", "s2", "s9"})

SpecMembers == Init /\ [][NextMembers]_vars

AddReads(requests, callers, ids, positions) ==
    \E request \in requests, owner_id \in callers, song_id \in ids,
       position \in positions :
        AddSongReads(request, owner_id, song_id, position)

AddWrites(requests) == \E request \in requests : AddSongWrites(request)

\* two add requests on one chain, their reads and writes in any order
NextConcurrent ==
    \/ Create({"u1"}, SongIds, 0)
    \/ AddReads(Requests, {"u1"}, {"s1", "s2", "s9"}, Positions)
    \/ AddWrites(Requests)

SpecConcurrent == Init /\ [][NextConcurrent]_vars

\* plays of transitions
NextTraversal ==
    \/ Create(Users, SongIds, 0)
    \/ Record(Users, RequestPairs, MaxTraversals)

SpecTraversal == Init /\ [][NextTraversal]_vars

\* the transitions of a chain whose members come and go
Next ==
    \/ Create({"u1"}, SongIds, 0)
    \/ FromHistory({"u1"}, {"s1", "s2"})
    \/ Add({"u1"}, {"s1", "s2"}, {NoPosition})
    \/ Remove({"u1"}, {"s1", "s2"})
    \/ Update({"u1"})
    \/ Record({"u1"}, {<<"s1", "s2">>, <<"s1", "s9">>}, MaxPlays)

Spec == Init /\ [][Next]_vars

\* suggestions, on chains seeded at creation, restyled, and with learned
\* transitions
NextSuggest ==
    \/ Create({"u1"}, {"s1", "s2", "s3"}, MaxIds)
    \/ Add({"u1"}, {"s3"}, {NoPosition})
    \/ Restyle({"u1"})
    \/ Record({"u1"}, {<<"s1", "s2">>, <<"s1", "s3">>}, MaxPlays)
    \/ SuggestNext(Users, {"s1", "s3", "s9"}, 0..MaxExclude)

SpecSuggest == Init /\ [][NextSuggest]_vars

Lookup(callers) ==
    \E owner_id \in callers : GetMoodChainById(owner_id)

\* a chain of "u1" with members and played transitions, and every operation
\* on it by "u2"
NextOwner ==
    \/ Create({"u1"}, {"s1", "s2"}, MaxIds)
    \/ Record({"u1"}, {<<"s1", "s2">>}, MaxPlays)
    \/ Lookup(Users)
    \/ Restyle({"u2"})
    \/ Delete({"u2"})
    \/ Add({"u2"}, {"s1", "s8"}, {NoPosition})
    \/ Remove(Users, {"s1"})
    \/ ReorderSongs({"u2"}, {"s1", "s2"})
    \/ Update({"u2"})
    \/ SuggestNext({"u2"}, {"s1", "s8"}, {0})
    \/ Record({"u2"}, {<<"s1", "s2">>}, MaxPlays)

SpecOwner == Init /\ [][NextOwner]_vars

\* the song rows similarity is computed from
SourceSongs ==
    {Song("s1", "u1", genre, bpm, energy, valence, artist, 200) :
        genre \in {NoneStr, "Rock"}, bpm \in {NoneInt, 0, 120},
        energy \in {NoneFloat, FDiv(7, 10)}, valence \in {NoneFloat, FDiv(6, 10)},
        artist \in {NoneStr, "X"}}

\* the song rows they are compared to
CandidateSongs ==
    {Song("s2", "u1", genre, bpm, energy, valence, artist, 180) :
        genre \in {NoneStr, "Rock", "rock", "Jazz"},
        bpm \in {NoneInt, 0, 122, 138, 145},
        energy \in {NoneFloat, FDiv(72, 100), FDiv(8, 10), FDiv(95, 100)},
        valence \in {NoneFloat, FDiv(58, 100), FDiv(75, 100), FDiv(85, 100),
                     FDiv(9, 10)},
        artist \in {NoneStr, "x", "Y"}}

\* one comparison in a behaviour
Similarity(sources, candidates) ==
    /\ lastCall.op # "calculate_similarity"
    /\ \E source \in sources, candidate \in candidates :
          CalculateSimilarity("u1", source, candidate)

\* similarity of pairs of song rows
NextSimilarity == Similarity(SourceSongs, CandidateSongs)

SpecSimilarity == Init /\ [][NextSimilarity]_vars

\* the keys the recommendation requests of the specification write
RecommendationKeys ==
    {<<"recommendations", "similar", "u1", "s6", "2">>,
     <<"recommendations", "discover", "u1", "2">>,
     <<"recommendations", "mix", "u1", "calm", "5">>}

Play(callers, ids) ==
    /\ now < MaxListens
    /\ \E user_id \in callers, song_id \in ids, outcome \in CacheOutcomes :
          RecordPlay(user_id, song_id, outcome)

Similar(callers, ids, limits) ==
    \E user_id \in callers, song_id \in ids, limit \in limits,
       get_outcome \in CacheOutcomes, set_outcome \in CacheOutcomes :
        GetSimilarSongs(user_id, song_id, limit, get_outcome, set_outcome)

Discover(callers, limits) ==
    \E user_id \in callers, limit \in limits,
       get_outcome \in CacheOutcomes, set_outcome \in CacheOutcomes :
        GetDiscoverRecommendations(user_id, limit, get_outcome, set_outcome)

PersonalMix(callers, moods, durations) ==
    \E user_id \in callers, mood \in moods, duration_minutes \in durations,
       get_outcome \in CacheOutcomes, set_outcome \in CacheOutcomes :
        GetPersonalMix(user_id, mood, duration_minutes, get_outcome, set_outcome)

Invalidate(callers) ==
    \E user_id \in callers, outcome \in CacheOutcomes :
        InvalidateUserCache(user_id, outcome)

Expiry(keys) == \E key \in keys : Expire(key)

Deletion(keys) ==
    \E key \in keys, outcome \in CacheOutcomes : CacheDelete(key, outcome)

\* plays and recommendations, the cache working or not
NextRecommend ==
    \/ Play({"u1"}, {"s6", "s9"})
    \/ Similar({"u1"}, {"s6", "s8"}, {2})
    \/ Discover({"u1"}, {2})
    \/ PersonalMix({"u1"}, {"calm"}, {5})
    \/ Invalidate({"u1"})
    \/ Expiry(RecommendationKeys)
    \/ Deletion(RecommendationKeys)

SpecRecommend == Init /\ [][NextRecommend]_vars

\* the keys the mix requests of the specification write
MixKeys ==
    {<<"recommendations", "mix", "u2", mood, "5">> : mood \in {NoMood, "calm"}}

\* personal mixes of a library with four songs of one artist, the cache
\* working or not
NextMix ==
    \/ PersonalMix({"u2"}, {NoMood, "calm"}, {5})
    \/ Expiry(MixKeys)

SpecMix == Init /\ [][NextMix]_vars

\* chains made from listening histories, and deleted
NextHistory ==
    \/ FromLog({"u1"}, {"s1", "s2", "s3"}, MaxHistory)
    \/ Delete({"u1"})

SpecHistory == Init /\ [][NextHistory]_vars

(***************************************************************************)
(* The status the API layer answers with (api/mood_chains.py): the service *)
(* errors it catches, and 500 for an exception it does not catch.          *)
(***************************************************************************)
HttpStatus(result) ==
    CASE result = "ok" -> 200
      [] result = "ValueError" -> 400
      [] result \in {"MoodChainNotFoundError", "SongNotFoundError",
                     "SongNotInMoodChainError"} -> 404
      [] result = "SongAlreadyInMoodChainError" -> 409
      [] result = "ValidationError" -> 422
      [] OTHER -> 500

(***************************************************************************)
(* Properties.                                                             *)
(***************************************************************************)
MemberCount == BagCardinality(mood_chain_songs)

MemberPositions == {r.position : r \in BagToSet(mood_chain_songs)}

Members == MemberSongIds(mood_chain_songs)

\* no song has two member rows
EachSongOnce ==
    \A r, x \in BagToSet(mood_chain_songs) :
        /\ CopiesIn(r, mood_chain_songs) = 1
        /\ r.song_id = x.song_id => r = x

IncidentTo(table, song_id) ==
    {t \in table : t.from_song_id = song_id \/ t.to_song_id = song_id}

\* C1: after any sequence of add_member (position omitted or any position
\* >= 0) and remove_member calls, the set of member positions is {0..N-1},
\* N the member count.
C1_PositionsDense == MemberPositions = 0..(MemberCount - 1)

\* C2: both endpoints of every transition are current members of the chain,
\* in every reachable state.
C2_EndpointsAreMembers ==
    \A t \in mood_chain_transitions :
        t.from_song_id \in Members /\ t.to_song_id \in Members

\* C3: remove_member(X) followed immediately by add_member(X) leaves X a
\* member and leaves no transition that has X as from_song or to_song.
C3_NoEdgeResurrected ==
    [][(/\ lastCall.op = "remove" /\ lastCall.result = "ok"
        /\ lastCall'.op = "add" /\ lastCall'.result = "ok"
        /\ lastCall'.args[1] = lastCall.args[1])
       => (/\ lastCall.args[1] \in MemberSongIds(mood_chain_songs')
           /\ IncidentTo(mood_chain_transitions', lastCall.args[1]) = {})]_vars

\* C4: add_member of a song that is already a member fails with
\* SongAlreadyInMoodChainError (409, not a 404), whatever the position, and
\* leaves the members, their positions and song_count unchanged.
C4_DuplicateAddConflicts ==
    [][(/\ lastCall'.op = "add"
        /\ get_mood_chain_by_id(lastCall'.owner_id) # {}
        /\ lastCall'.args[1] \in Members)
       => (/\ lastCall'.result = "SongAlreadyInMoodChainError"
           /\ HttpStatus(lastCall'.result) = 409
           /\ mood_chain_songs' = mood_chain_songs
           /\ mood_chains' = mood_chains)]_vars

\* C5: reorder with a list that omits a current member, or that holds an id
\* that is no current member, raises ValueError and changes no position.
C5_ReorderRejectsMismatch ==
    [][(/\ lastCall'.op = "reorder"
        /\ get_mood_chain_by_id(lastCall'.owner_id) # {}
        /\ \/ \E m \in Members : m \notin Range(lastCall'.args[1])
           \/ \E id \in Range(lastCall'.args[1]) : id \notin Members)
       => (/\ lastCall'.result = "ValueError"
           /\ HttpStatus(lastCall'.result) = 400
           /\ mood_chain_songs' = mood_chain_songs)]_vars

\* C5 witness: a reorder that omitted a member of a chain of two or more was
\* rejected.
C5_Witness ==
    /\ lastCall.op = "reorder" /\ lastCall.result = "ValueError"
    /\ MemberCount >= 2
    /\ \E m \in Members : m \notin Range(lastCall.args[1])
    /\ \A id \in Range(lastCall.args[1]) : id \in Members

\* C6: a reorder succeeds only on a permutation of the members (each member
\* once), and after it each member's position is its index in the list, so
\* the positions are again 0..N-1.
C6_ReorderIsPermutation ==
    (lastCall.op = "reorder" /\ lastCall.result = "ok" /\ EachSongOnce)
    => LET song_ids == lastCall.args[1]
       IN  /\ Len(song_ids) = MemberCount
           /\ \A i, j \in DOMAIN song_ids : song_ids[i] = song_ids[j] => i = j
           /\ BagToSet(mood_chain_songs) =
                 {MemberRow(song_ids[i], i - 1) : i \in DOMAIN song_ids}
           /\ MemberPositions = 0..(MemberCount - 1)

\* |weight - cents/100| < 2^-19
IsAbout(weight, cents) ==
    LET w == (weight.hi \div 2^8) * 100
        c == cents * 2^20
    IN  w - c <= 100 /\ c - w <= 200

\* C7: k plays in a row of a pair that had no transition give weight 0.6
\* after the first, 0.05 more after each later one, capped at 1.0: the
\* weight is 1.0 from the 9th play on and below 1.0 before; play_count is k.
C7_TraversalSteps ==
    streak.calls >= 1 =>
        \E t \in mood_chain_transitions :
            /\ get_transition(mood_chain_transitions,
                              streak.from_song_id, streak.to_song_id) = {t}
            /\ t.play_count = streak.calls
            /\ streak.calls = 1 => t.weight = FDiv(6, 10)
            /\ streak.calls < 9 =>
                  /\ IsAbout(t.weight, 60 + 5 * (streak.calls - 1))
                  /\ FLess(t.weight, One)
            /\ streak.calls >= 9 => t.weight = One

\* C7 witness: a tenth play in a row.
C7_Witness == streak.calls = 10

\* C8: every transition has weight in [0.0, 1.0] and play_count >= 0.
C8_WeightInUnitInterval ==
    \A t \in mood_chain_transitions :
        /\ FLeq(Zero, t.weight) /\ FLeq(t.weight, One)
        /\ t.play_count >= 0

\* C8 witness: a transition written by update_transitions and then played, and
\* a transition that create_from_history gave weight 1.0, played and still 1.0.
C8_Witness ==
    \/ /\ lastCall.op = "record_transition_played" /\ lastCall.result = "ok"
       /\ \E c \in mood_chains : c.is_auto_generated
       /\ \E t \in mood_chain_transitions : t.play_count = 1 /\ t.weight = One
    \/ /\ lastCall.op = "record_transition_played" /\ lastCall.result = "ok"
       /\ \E t \in mood_chain_transitions :
             t.play_count = 1 /\ t.weight = FAdd(FDiv(3, 10), FDiv(5, 100))

\* C9: a successful record_traversal adds exactly 1 to the chain's play_count
\* and sets last_played_at, whether or not the transition existed; the
\* play_count is the number of successful calls; no member row and no
\* transition other than (from, to) changes.
C9_TraversalCountsChainPlay ==
    [][(lastCall'.op = "record_transition_played" /\ lastCall'.result = "ok")
       => \E c \in mood_chains, d \in mood_chains' :
            /\ mood_chains = {c} /\ mood_chains' = {d}
            /\ d.play_count = c.play_count + 1
            /\ d.play_count = traversals'
            /\ d.last_played_at # 0 /\ d.last_played_at = now'
            /\ d.song_count = c.song_count
            /\ mood_chain_songs' = mood_chain_songs
            /\ \A t \in mood_chain_transitions \cup mood_chain_transitions' :
                  (t.from_song_id # lastCall'.args[1] \/ t.to_song_id # lastCall'.args[2])
                  => (t \in mood_chain_transitions /\ t \in mood_chain_transitions')
      ]_vars

\* C9 witness: the second successful play of a chain, on a transition that
\* existed.
C9_Witness ==
    /\ lastCall.op = "record_transition_played" /\ lastCall.result = "ok"
    /\ \E c \in mood_chains : c.play_count = 2
    /\ \E t \in mood_chain_transitions : t.play_count = 2

\* the last weight a request gives for a pair
LastWeight(transitions, from_song_id, to_song_id) ==
    LET ks == {k \in DOMAIN transitions :
                  /\ transitions[k].from_song_id = from_song_id
                  /\ transitions[k].to_song_id = to_song_id}
    IN  transitions[CHOOSE k \in ks : \A j \in ks : j <= k].weight

\* C10: a chain holds at most one transition per ordered pair; an
\* update_transitions request (weights in [0,1]) leaves, for every pair it
\* names whose songs are members, exactly one transition with the given
\* weight, and with the play_count the pair's transition had (0 if it had
\* none), also when it names the pair more than once.
C10_UpsertOnePerPair ==
    [][/\ \A t, u \in mood_chain_transitions' :
            (t.from_song_id = u.from_song_id /\ t.to_song_id = u.to_song_id) => t = u
       /\ (/\ lastCall'.op = "update_transitions"
           /\ get_mood_chain_by_id(lastCall'.owner_id) # {}
           /\ \A k \in DOMAIN lastCall'.args[1] :
                 WeightIsValid(lastCall'.args[1][k].weight))
          => /\ lastCall'.result = "ok"
             /\ \A k \in DOMAIN lastCall'.args[1] :
                  LET data == lastCall'.args[1][k]
                      before == get_transition(mood_chain_transitions,
                                               data.from_song_id, data.to_song_id)
                      after == get_transition(mood_chain_transitions',
                                              data.from_song_id, data.to_song_id)
                  IN  (data.from_song_id \in Members /\ data.to_song_id \in Members)
                      => \E t \in after :
                            /\ after = {t}
                            /\ t.weight = LastWeight(lastCall'.args[1],
                                                     data.from_song_id, data.to_song_id)
                            /\ t.play_count =
                                 IF before = {} THEN 0
                                 ELSE (CHOOSE b \in before : TRUE).play_count
      ]_vars

\* the members of a chain other than the current song
Candidates(current_song_id) == Members \ {current_song_id}

\* C11: get_next_song_suggestions with exclude_recent = 0 returns exactly one
\* entry for every member other than the current song and none for the
\* current song, ordered by weight descending.
C11_SuggestsEachMemberOnce ==
    (/\ lastCall.op = "get_next_song_suggestions"
     /\ lastCall.result = "ok"
     /\ lastCall.args[2] = 0)
    => LET suggestions == lastCall.value
           candidates == Candidates(lastCall.args[1])
       IN  /\ \A m \in candidates :
                 Cardinality({i \in DOMAIN suggestions :
                                 suggestions[i].song_id = m}) = 1
           /\ \A i \in DOMAIN suggestions : suggestions[i].song_id \in candidates
           /\ Len(suggestions) = Cardinality(candidates)
           /\ \A i, j \in DOMAIN suggestions :
                 i < j => FLeq(suggestions[j].weight, suggestions[i].weight)

\* C12: get_next_song_suggestions raises MoodChainNotFoundError when the
\* caller has no such chain, and SongNotFoundError when the caller has the
\* chain but no song current_song_id, for every chain, also one without members.
C12_SuggestErrors ==
    lastCall.op = "get_next_song_suggestions"
    => /\ get_mood_chain_by_id(lastCall.owner_id) = {}
            => lastCall.result = "MoodChainNotFoundError"
       /\ (/\ get_mood_chain_by_id(lastCall.owner_id) # {}
           /\ get_song(lastCall.args[1], lastCall.owner_id) = {})
            => lastCall.result = "SongNotFoundError"

\* the song ids of the entries of the time window of the last
\* create_from_history call
WindowLog ==
    LET entries == HistoryEntries(lastCall.args[1], lastCall.args[3],
                                  lastCall.args[4])
    IN  [k \in DOMAIN entries |-> entries[k].song_id]

\* C13: create_from_history with min_plays = 1 over the log A,B,A,B,A gives
\* exactly the transitions A->B and B->A, both of weight 1.0, and the members
\* A at position 0 and B at position 1.
C13_AlternatingLog ==
    \A a, b \in {"s1", "s2", "s3"} :
        (/\ a # b
         /\ lastCall.op = "create_from_history"
         /\ lastCall.args[2] = 1
         /\ WindowLog = <<a, b, a, b, a>>)
        => /\ mood_chain_transitions =
                 {TransitionRow(a, b, One, 0), TransitionRow(b, a, One, 0)}
           /\ mood_chain_songs =
                 SetToBag({MemberRow(a, 0), MemberRow(b, 1)})

\* C13 witness: the chain made from the log s1,s2,s1,s2,s1 with min_plays 1.
C13_Witness ==
    /\ lastCall.op = "create_from_history"
    /\ lastCall.args = <<<<"s1", "s2", "s1", "s2", "s1">>, 1, 0, 0>>
    /\ mood_chains # {}

\* the last call was _calculate_similarity
IsSimilarity == lastCall.op = "calculate_similarity"

\* C14: similarity(A, B) gives the same score and the same reasons as
\* similarity(B, A), whatever features the two songs have.
C14_SimilaritySymmetric ==
    IsSimilarity =>
        LET swapped == calculate_similarity(lastCall.args[2], lastCall.args[1])
        IN  /\ lastCall.value.score = swapped.score
            /\ lastCall.value.reasons = swapped.reasons

\* C14 witness: a pair whose tempos differ by more than 10 and whose genres
\* differ in case only has been compared.
C14_Witness ==
    /\ IsSimilarity
    /\ lastCall.args[1].bpm = 120 /\ lastCall.args[2].bpm = 138
    /\ lastCall.args[1].genre = "Rock" /\ lastCall.args[2].genre = "rock"
    /\ lastCall.value.reasons = <<"same genre", "close BPM">>

\* a - b or b - a, whichever is not negative, exactly
ExactDiff(a, b) ==
    LET x == FMax(a, b)
        y == FMin(a, b)
        borrow == IF x.lo < y.lo THEN 1 ELSE 0
    IN  Dbl(x.hi - y.hi - borrow, x.lo - y.lo + borrow * Limb)

\* two floats differ by at most one tenth: by at most floor(2^57 / 10) units
WithinTenth(a, b) ==
    LET d == ExactDiff(a, b)
    IN  d.hi < 26843545 \/ (d.hi = 26843545 /\ d.lo <= 322122547)

\* both songs of the last comparison have every feature
BothHaveAll ==
    \A song \in {lastCall.args[1], lastCall.args[2]} :
        /\ song.genre # NoneStr /\ song.bpm # NoneInt
        /\ song.energy # NoneFloat /\ song.valence # NoneFloat
        /\ song.artist # NoneStr

\* C15: two songs that both have genre, bpm, energy, valence and artist, with
\* genres and artists equal ignoring case and bpm, energy and valence within
\* 10, 0.1 and 0.1, have similarity 1.0 and the reasons "same genre",
\* "similar BPM", "similar energy", "similar mood", "same artist" in that order.
C15_FullMatch ==
    (/\ IsSimilarity
     /\ BothHaveAll
     /\ Lower(lastCall.args[1].genre) = Lower(lastCall.args[2].genre)
     /\ Lower(lastCall.args[1].artist) = Lower(lastCall.args[2].artist)
     /\ lastCall.args[1].bpm - lastCall.args[2].bpm \in -10..10
     /\ WithinTenth(lastCall.args[1].energy, lastCall.args[2].energy)
     /\ WithinTenth(lastCall.args[1].valence, lastCall.args[2].valence))
    => /\ lastCall.value.score = One
       /\ lastCall.value.reasons =
             <<"same genre", "similar BPM", "similar energy", "similar mood",
               "same artist">>

\* the songs of the last comparison have no genre, bpm, energy or valence
NeitherHasAny ==
    \A song \in {lastCall.args[1], lastCall.args[2]} :
        /\ song.genre = NoneStr /\ song.bpm = NoneInt
        /\ song.energy = NoneFloat /\ song.valence = NoneFloat

IsDiscover ==
    lastCall.op = "get_discover_recommendations" /\ lastCall.result = "ok"

\* C17: every song of the hidden_gems section a get_discover_recommendations
\* call returns has play_count <= 3, and the caller has a top 5 by play_count
\* that it is not among and that its average similarity to is above 0.3.
C17_HiddenGems ==
    IsDiscover =>
        \A gem \in Range(lastCall.value.hidden_gems) :
            /\ song_play_count[gem] <= 3
            /\ \E top_songs \in TopSongs(lastCall.owner_id) :
                  /\ gem \notin Range(top_songs)
                  /\ FLess(GemScore, AvgScore(top_songs, gem))

\* the operations that call the cache
CacheOps ==
    {"get_similar_songs", "get_discover_recommendations", "get_personal_mix",
     "invalidate_user_cache", "cache_delete", "record_play"}

\* what the last call, of a recommendation operation, may compute from the
\* tables
Recomputed ==
    CASE lastCall.op = "get_similar_songs" ->
           SimilarSongs(lastCall.owner_id, lastCall.args[1], lastCall.args[2])
      [] lastCall.op = "get_discover_recommendations" ->
           DiscoverSections(lastCall.owner_id, lastCall.args[1])
      [] lastCall.op = "get_personal_mix" ->
           PersonalMixes(lastCall.owner_id, lastCall.args[1], lastCall.args[2])

\* C18: no call ends with the cache's error; a cache call that found the
\* client absent or raising returned None (get) or False (set, delete,
\* delete_pattern) and left the cache as it was; and get_similar_songs,
\* get_discover_recommendations and get_personal_mix whose cache read did so
\* went on to compute their result from the tables and returned it.
C18_CacheBestEffort ==
    /\ lastCall.result # "RedisError"
    /\ (lastCall.op \in CacheOps /\ lastCall.result = "ok") =>
          /\ \A k \in DOMAIN lastCall.cache_calls :
                lastCall.cache_calls[k].outcome # "ok" =>
                    lastCall.cache_calls[k].returned = FALSE
          /\ ( /\ lastCall.op \in {"get_similar_songs",
                                   "get_discover_recommendations",
                                   "get_personal_mix"}
               /\ lastCall.cache_calls[1].outcome # "ok" ) =>
                 /\ Len(lastCall.cache_calls) = 2
                 /\ lastCall.value \in Recomputed

\* C18 witness: get_discover_recommendations found the cache raising on the
\* read, although the key was there, and absent on the write, and returned
\* sections with a hidden gem.
C18_Witness ==
    /\ IsDiscover
    /\ Len(lastCall.cache_calls) = 2
    /\ lastCall.cache_calls[1].outcome = "fails"
    /\ lastCall.cache_calls[2].outcome = "unavailable"
    /\ <<"recommendations", "discover", lastCall.owner_id, Str(lastCall.args[1])>>
          \in DOMAIN cache
    /\ lastCall.value.hidden_gems # <<>>

\* the operations on one mood chain
ChainOps ==
    {"get_mood_chain_by_id", "update", "delete", "add", "remove", "reorder",
     "update_transitions", "get_next_song_suggestions",
     "record_transition_played"}

\* the step is a call of the service on the chain by someone who does not own
\* it (a request the schema rejected never reached the service)
ByAnother ==
    /\ mood_chains # {}
    /\ lastCall'.op \in ChainOps
    /\ \A c \in mood_chains : c.owner_id # lastCall'.owner_id
    /\ lastCall'.result # "ValidationError"

\* C19: a call on a chain by another owner than the chain's finds no chain:
\* get_mood_chain_by_id returns None, every other operation raises
\* MoodChainNotFoundError, and the chain row with its counters, the member
\* rows and the transition rows stay what they were.
C19_OthersChainIsNotFound ==
    [][ByAnother =>
          /\ IF lastCall'.op = "get_mood_chain_by_id"
             THEN lastCall'.result = "ok" /\ lastCall'.value = {}
             ELSE lastCall'.result = "MoodChainNotFoundError"
          /\ UNCHANGED <<mood_chains, mood_chain_songs, mood_chain_transitions,
                         traversals>>]_vars

\* C19 witness: "u2" asked to delete the chain of "u1", which has two members
\* and a played transition, and was told there is none.
C19_Witness ==
    /\ lastCall.op = "delete"
    /\ lastCall.owner_id = "u2"
    /\ lastCall.result = "MoodChainNotFoundError"
    /\ \E c \in mood_chains : c.owner_id = "u1" /\ c.song_count = 2
    /\ \E t \in mood_chain_transitions : t.play_count > 0

\* the step is a successful add_song_to_mood_chain with position omitted
AppendsSong ==
    /\ lastCall'.op = "add"
    /\ lastCall'.result = "ok"
    /\ lastCall'.args[2] = NoPosition

\* C20: after a successful create_mood_chain, add_song_to_mood_chain,
\* remove_song_from_mood_chain or create_from_history the chain's song_count
\* is the number of its member rows, and an add with position omitted to a
\* chain of N rows puts the new song at position N, after every other row.
C20_CountedAndAppended ==
    [][/\ ( /\ lastCall'.op \in {"create", "create_from_history", "add", "remove"}
            /\ lastCall'.result = "ok" ) =>
             \A c \in mood_chains' :
                 c.song_count = BagCardinality(mood_chain_songs')
       /\ AppendsSong =>
             \A r \in BagToSet(mood_chain_songs') :
                 IF r.song_id = lastCall'.args[1]
                 THEN r.position = BagCardinality(mood_chain_songs)
                 ELSE r.position < BagCardinality(mood_chain_songs)]_vars

\* a get_next_song_suggestions call has returned its suggestions
IsSuggestion ==
    lastCall.op = "get_next_song_suggestions" /\ lastCall.result = "ok"

\* the chain's transitions from the current song of the last call to a song
EdgesTo(song_id) ==
    {t \in mood_chain_transitions :
        t.from_song_id = lastCall.args[1] /\ t.to_song_id = song_id}

\* the reasons a transition style gives
StyleReasons(transition_style) ==
    CASE transition_style = "smooth" ->
           {"similar energy/valence", "default suggestion"}
      [] transition_style = "energy_flow" ->
           {"increasing energy", "lower energy", "default suggestion"}
      [] transition_style = "genre_match" ->
           {"same genre", "different genre", "default suggestion"}
      [] transition_style = "random" -> {"random selection"}

\* C21: every suggestion for a song the current song has a transition to
\* carries that transition's weight and the reason "high transition weight",
\* whatever the chain's transition style; every other suggestion carries a
\* reason of the style; and with exclude_recent = 0 every member the current
\* song has a transition to is suggested.
C21_LearnedEdgeWins ==
    IsSuggestion =>
        /\ \A i \in DOMAIN lastCall.value :
              LET suggestion == lastCall.value[i]
                  edges == EdgesTo(suggestion.song_id)
              IN  IF edges # {}
                  THEN /\ suggestion.reason = "high transition weight"
                       /\ \E t \in edges : suggestion.weight = t.weight
                  ELSE \A c \in mood_chains :
                          suggestion.reason \in StyleReasons(c.transition_style)
        /\ lastCall.args[2] = 0 =>
              \A m \in Candidates(lastCall.args[1]) :
                  EdgesTo(m) # {} =>
                      \E i \in DOMAIN lastCall.value : lastCall.value[i].song_id = m

\* C21 witness: on an energy_flow chain the suggestions after "s1" have "s3"
\* by its learned transition and "s2", to which there is none, by the style.
C21_Witness ==
    /\ IsSuggestion
    /\ lastCall.args[1] = "s1"
    /\ \E c \in mood_chains : c.transition_style = "energy_flow"
    /\ EdgesTo("s3") # {} /\ EdgesTo("s2") = {}
    /\ \E i, j \in DOMAIN lastCall.value :
          /\ lastCall.value[i].song_id = "s3"
          /\ lastCall.value[i].reason = "high transition weight"
          /\ lastCall.value[j].song_id = "s2"
          /\ lastCall.value[j].reason = "increasing energy"

\* the lists the last get_next_song_suggestions call would have returned with
\* exclude_recent = 0: one for every order the member rows may load in and
\* all values random.random() may give
FullSuggestions ==
    {LET suggestions ==
             BuildSuggestions(CHOOSE c \in mood_chains : TRUE, ordered,
                              CHOOSE x \in songs : x.id = lastCall.args[1],
                              {t \in mood_chain_transitions :
                                  t.from_song_id = lastCall.args[1]},
                              randoms, 1)
     IN  SortByWeight(suggestions, Len(suggestions)) :
        ordered \in OrderedRows(mood_chain_songs),
        randoms \in Randoms(BagCardinality(mood_chain_songs))}

Min(a, b) == IF a <= b THEN a ELSE b

IsSynthesis == lastCall.op = "create_from_history" /\ lastCall.result = "ok"

\* the plays of a song in the time window
LogCount(song_id) ==
    Cardinality({k \in DOMAIN WindowLog : WindowLog[k] = song_id})

\* the songs played min_plays times or more in the time window
Qualifying ==
    {song_id \in Range(WindowLog) : LogCount(song_id) >= lastCall.args[2]}

IsQualifying(song_id) == song_id \in Qualifying

\* the time window's entries of qualifying songs, in order
ValidLog == SelectSeq(WindowLog, IsQualifying)

\* the places of a log where `from` is followed by `to`
AdjacentCount(log, from, to) ==
    Cardinality({k \in 1..(Len(log) - 1) : log[k] = from /\ log[k + 1] = to})

\* the places of a log where `from` is followed by an entry
OutgoingCount(log, from) ==
    Cardinality({k \in 1..(Len(log) - 1) : log[k] = from})

\* the transitions of the chain that leave a song
Outgoing(from) == {t \in mood_chain_transitions : t.from_song_id = from}

\* the sums of the weights of a set of transitions, in whatever order they
\* are added
RECURSIVE WeightSums(_)
WeightSums(transitions) ==
    IF transitions = {} THEN {Zero}
    ELSE UNION {{FAdd(sum, t.weight) : sum \in WeightSums(transitions \ {t})} :
                   t \in transitions}

\* C23: in a chain made by create_from_history every transition has a weight
\* above 0 that is its count divided by the count of all transitions leaving
\* its source; the transitions leaving one song have distinct targets, counts
\* that add up to that total, and weights that add up to 1; and all counts
\* together are the number of entries of qualifying songs less one.
C23_WeightsNormalised ==
    IsSynthesis =>
        LET log == ValidLog
        IN  /\ \A t \in mood_chain_transitions :
                  /\ AdjacentCount(log, t.from_song_id, t.to_song_id) > 0
                  /\ t.weight =
                        FDiv(AdjacentCount(log, t.from_song_id, t.to_song_id),
                             OutgoingCount(log, t.from_song_id))
                  /\ FLess(Zero, t.weight)
                  /\ \A u \in Outgoing(t.from_song_id) :
                        u.to_song_id = t.to_song_id => u = t
            /\ \A from \in Range(log) :
                  IF OutgoingCount(log, from) > 0
                  THEN WeightSums(Outgoing(from)) = {One}
                  ELSE Outgoing(from) = {}
            /\ log # <<>> =>
                  Cardinality({k \in 1..(Len(log) - 1) :
                      \E t \in mood_chain_transitions :
                          /\ t.from_song_id = log[k]
                          /\ t.to_song_id = log[k + 1]}) = Len(log) - 1

\* C23 witness: a chain made from the log s1,s2,s1,s3,s1, whose transitions
\* from s2 and from s3 have weight 1 and those from s1 weight 1/2 each.
C23_Witness ==
    /\ IsSynthesis
    /\ WindowLog = <<"s1", "s2", "s1", "s3", "s1">>
    /\ lastCall.args[2] = 1
    /\ Cardinality(Outgoing("s1")) = 2
    /\ \A t \in Outgoing("s1") : t.weight = FDiv(1, 2)

\* C24: the transitions of a chain made by create_from_history are the pairs
\* of songs that follow one another in the time window's log once the
\* entries of songs played less than min_plays times are taken out of it: such
\* an entry between two others does not part them.
C24_InvalidEntriesSkipped ==
    IsSynthesis =>
        LET log == ValidLog
        IN  {<<t.from_song_id, t.to_song_id>> : t \in mood_chain_transitions}
              = {<<log[k], log[k + 1]>> : k \in 1..(Len(log) - 1)}

\* C24 witness: the log s1,s1,s3,s2,s2 with min_plays 2, in which the one
\* play of s3 lies between s1 and s2, gave the transition from s1 to s2.
C24_Witness ==
    /\ IsSynthesis
    /\ WindowLog = <<"s1", "s1", "s3", "s2", "s2">>
    /\ lastCall.args[2] = 2
    /\ "s3" \notin Qualifying
    /\ \E t \in mood_chain_transitions :
          t.from_song_id = "s1" /\ t.to_song_id = "s2"

\* C25: the chain made by create_from_history is marked is_auto_generated;
\* its members are the songs played min_plays times or more in the time
\* window, each once, at the positions 0..N-1, a song of more plays before a
\* song of fewer; song_count is N; every transition joins two members; and
\* when no song qualifies the call still succeeds, with no member and no
\* transition.
C25_MembersByPlayCount ==
    lastCall.op = "create_from_history" =>
        /\ lastCall.result = "ok"
        /\ \E c \in mood_chains :
              /\ mood_chains = {c}
              /\ c.is_auto_generated
              /\ c.song_count = Cardinality(Qualifying)
        /\ Members = Qualifying
        /\ EachSongOnce
        /\ MemberPositions = 0..(Cardinality(Qualifying) - 1)
        /\ \A r, x \in BagToSet(mood_chain_songs) :
              r.position < x.position => LogCount(r.song_id) >= LogCount(x.song_id)
        /\ \A t \in mood_chain_transitions :
              t.from_song_id \in Members /\ t.to_song_id \in Members
        /\ Qualifying = {} =>
              mood_chain_songs = EmptyBag /\ mood_chain_transitions = {}

\* C25 witness: of the history s3,s2,s1,s1 the time window from the second
\* play on holds s2 once and s1 twice: the chain has s1 at position 0 and s2
\* at position 1, and s3 is no member.
C25_Witness ==
    /\ IsSynthesis
    /\ lastCall.args = <<<<"s3", "s2", "s1", "s1">>, 1, 2, 0>>
    /\ mood_chain_songs = SetToBag({MemberRow("s1", 0), MemberRow("s2", 1)})

\* two floats differ by at most two tenths: by at most floor(2^57 * 2 / 10)
\* units
WithinFifth(a, b) ==
    LET d == ExactDiff(a, b)
    IN  d.hi < 53687091 \/ (d.hi = 53687091 /\ d.lo <= 107374182)

\* two floats differ by at most three tenths: by at most floor(2^57 * 3 / 10)
\* units
WithinThreeTenths(a, b) ==
    LET d == ExactDiff(a, b)
    IN  d.hi < 80530636 \/ (d.hi = 80530636 /\ d.lo <= 429496729)

\* the fraction of its weight a tiered factor is said to score for two values
TierFraction(a, b) ==
    IF WithinTenth(a, b) THEN One
    ELSE IF WithinFifth(a, b) THEN FDiv(75, 100)
    ELSE IF WithinThreeTenths(a, b) THEN FDiv(5, 10)
    ELSE Zero

\* of the five factors only valence can score in the last comparison: the
\* songs have no genre, bpm or energy, both have a valence, and their artists
\* differ or one has none
OnlyValenceScores ==
    /\ \A song \in {lastCall.args[1], lastCall.args[2]} :
          /\ song.genre = NoneStr /\ song.bpm = NoneInt
          /\ song.energy = NoneFloat /\ song.valence # NoneFloat
    /\ \/ lastCall.args[1].artist = NoneStr
       \/ lastCall.args[2].artist = NoneStr
       \/ Lower(lastCall.args[1].artist) # Lower(lastCall.args[2].artist)

\* C26: when both songs have a valence, the valence factor adds 0.15 to the
\* weights_sum and 1.0, 0.75 or 0.5 times 0.15 to the score for an absolute
\* valence difference of at most 0.1, 0.2 or 0.3, and nothing above 0.3: where
\* only valence can score, the score is that contribution over the
\* weights_sum 0.15 + 0.15.
C26_ValenceTiers ==
    (IsSimilarity /\ OnlyValenceScores) =>
        LET fraction == TierFraction(lastCall.args[1].valence,
                                     lastCall.args[2].valence)
        IN  /\ lastCall.value.weights_sum = FAdd(FDiv(15, 100), FDiv(15, 100))
            /\ lastCall.value.score =
                  FDivF(FMul(fraction, FDiv(15, 100)),
                        lastCall.value.weights_sum)

\* the last call is a get_personal_mix that computed its mix from the
\* candidate list: its cache read gave nothing
IsComputedMix ==
    /\ lastCall.op = "get_personal_mix" /\ lastCall.result = "ok"
    /\ ~lastCall.cache_calls[1].returned

\* the songs of a mix credited to an artist, a song without artist to "Unknown"
ByArtist(song_ids, artist) ==
    {k \in DOMAIN song_ids :
        LET song == SongById(song_ids[k])
        IN  artist = (IF song.artist = NoneStr THEN "Unknown" ELSE song.artist)}

\* the seconds of the first n songs of a mix
RECURSIVE SecondsOf(_, _)
SecondsOf(song_ids, n) ==
    IF n = 0 THEN 0
    ELSE SecondsOf(song_ids, n - 1) + SongById(song_ids[n]).duration_seconds

\* C27: in a mix computed from the candidate list no artist (no artist
\* counting as "Unknown") has more than 3 songs, the songs before the last
\* one selected last less than duration_minutes * 60 seconds together, and
\* the total returned is the sum of the durations of the songs selected.
C27_MixCapAndStop ==
    IsComputedMix =>
        LET song_ids == lastCall.value.song_ids
        IN  /\ \A artist \in {s.artist : s \in songs} \cup {"Unknown"} :
                  Cardinality(ByArtist(song_ids, artist)) <= 3
            /\ Len(song_ids) > 0 =>
                  SecondsOf(song_ids, Len(song_ids) - 1) < lastCall.args[2] * 60
            /\ lastCall.value.total_duration = SecondsOf(song_ids, Len(song_ids))

\* a mix of 5 minutes that stops at 300 seconds after two of the four songs
\* has been computed
StoppedAtTarget ==
    /\ IsComputedMix
    /\ lastCall.args = <<NoMood, 5>>
    /\ lastCall.value.song_ids = <<"s8", "s10">>
    /\ lastCall.value.total_duration = 300

\* C27 witness: a mix of 5 minutes has been computed from a list of four
\* songs by X that has the three short ones, 210 seconds, and not the
\* fourth.
C27_Witness ==
    /\ IsComputedMix
    /\ lastCall.args = <<NoMood, 5>>
    /\ Cardinality(ByArtist(<<"s8", "s10", "s11", "s12">>, "X")) = 4
    /\ lastCall.value.song_ids = <<"s10", "s11", "s12">>
    /\ lastCall.value.total_duration = 210

\* the user a recommendation key was written for: the segment after the kind
\* (recommendations:similar:{user_id}:..., recommendations:discover:{user_id}:...,
\* recommendations:mix:{user_id}:...)
KeyUser(key) == key[3]

\* the cached recommendation entries of a user
KeysOf(user_id) ==
    {key \in DOMAIN cache :
        /\ key[1] = "recommendations"
        /\ key[2] \in {"similar", "discover", "mix"}
        /\ KeyUser(key) = user_id}

\* C30: after _invalidate_user_cache(user) on a working cache no key that
\* get_similar_songs, get_discover_recommendations or get_personal_mix wrote
\* for that user is left in the cache.
C30_InvalidateDropsUserKeys ==
    (/\ lastCall.op = "invalidate_user_cache"
     /\ lastCall.result = "ok"
     /\ lastCall.cache_calls[1].outcome = "ok")
    => KeysOf(lastCall.owner_id) = {}

\* the last call created a chain seeded with a list of song ids
IsSeededCreate ==
    /\ lastCall.op = "create" /\ lastCall.result = "ok"
    /\ Len(lastCall.args[1]) > 0

\* C29: a chain created with song_ids has its members at the positions
\* 0..N-1, N the member count, without gap, no song twice, and in the order
\* of the list, also when the list holds an id the caller does not own or
\* holds an id twice.
C29_SeededDense ==
    IsSeededCreate =>
        /\ MemberPositions = 0..(MemberCount - 1)
        /\ EachSongOnce
        /\ \A r, x \in BagToSet(mood_chain_songs) :
              r.position < x.position =>
                  \E i, j \in DOMAIN lastCall.args[1] :
                      /\ i < j
                      /\ lastCall.args[1][i] = r.song_id
                      /\ lastCall.args[1][j] = x.song_id

\* no two member rows have the same position
EachPositionOnce ==
    \A r, x \in BagToSet(mood_chain_songs) :
        /\ CopiesIn(r, mood_chain_songs) = 1
        /\ r.position = x.position => r = x

\* C28: two add_member requests on one chain that both read the membership
\* check and song_count before either writes leave no two members with the
\* same position and no song a member twice.
C28_InterleavedAddsDistinct ==
    (\A request \in Requests : sessions[request] = NoSession)
        => EachPositionOnce /\ EachSongOnce

====
